---- MODULE Spec2Model ----
(***************************************************************************)
(* Encrypted credential vault of the DevOps MCP server (vault.ts).         *)
(*                                                                         *)
(* The state is what the module keeps outside a call: the backing file     *)
(* vault.enc.json, the process environment, the key derived once at module *)
(* load, and the wall clock.  Every exported function is one action; it    *)
(* runs synchronously to completion and leaves its return value in `ret`.  *)
(* Where two processes write the same file, a call of each is in `pending` *)
(* from its loadVault to its return; its writeFileSync is two steps, the   *)
(* open that truncates the file and the write.  `disk` is the condition of *)
(* the file system that writeFileSync meets.  `db` is devops-agent.json of *)
(* db.ts, `inserted` counts the insertDeployment calls, and `watch` is the *)
(* call of watchDeployment (monitor.ts) in progress.                       *)
(*                                                                         *)
(* Abstractions, stated once:                                              *)
(*  - a JavaScript object is a function from its own keys to values; the   *)
(*    insertion order of keys is not kept.  The objects of the vault are   *)
(*    made by JSON.parse and by object literals, so a property read also   *)
(*    finds the names inherited from Object.prototype, and an assignment   *)
(*    to "__proto__" replaces the prototype and makes no own key;          *)
(*  - a JSON text is the sequence of its tokens (braces, keys, string      *)
(*    values; colons and commas are the token boundaries);                 *)
(*  - AES-256-GCM is a position-wise keystream cipher over the token codes *)
(*    with an ideal authentication tag: the tag computed for (key, iv,     *)
(*    ciphertext) equals a presented tag only when it was made from the    *)
(*    same three values; SHA-256 is an ideal (injective) hash.             *)
(***************************************************************************)
EXTENDS Naturals, Sequences, FiniteSets, TLC

VARIABLES file, env, KEY, now, ret, pending, disk, db, inserted, watch

vars == <<file, env, KEY, now, ret, pending, disk, db, inserted, watch>>

----------------------------------------------------------------------------
(* Bounds of the model *)

\* the clock takes the values 0..MaxTime
MaxTime == 1

\* randomBytes(16) draws the iv from 1..NumIvs
NumIvs == 2

----------------------------------------------------------------------------
(* Names, values and inputs *)

\* the platforms of the fallback table, in the order of the source
KnownPlatforms ==
    <<"github", "railway", "cloudflare", "render", "digitalocean", "aws",
      "vercel", "flyio", "netlify", "slack", "discord">>

\* the names that vault.credentials[platform] finds on Object.prototype
\* where the object has no own key of that name: the value is a function,
\* or Object.prototype itself for "__proto__", which is truthy and has no
\* own enumerable property
ObjectPrototypeNames ==
    {"constructor", "__proto__", "hasOwnProperty", "isPrototypeOf",
     "propertyIsEnumerable", "toLocaleString", "toString", "valueOf",
     "__defineGetter__", "__defineSetter__", "__lookupGetter__",
     "__lookupSetter__"}

\* platform identifiers the callers pass: platform is any string;
\* "doesnotexist" is in no table, "constructor" and "__proto__" are names
\* of Object.prototype
Platforms == {"github", "render", "doesnotexist", "constructor", "__proto__"}

\* platforms that storeCredentials is called with in the model.  A store
\* under "__proto__" makes no own key; under every other name of
\* Object.prototype the assignment makes an own key, as it does for
\* "doesnotexist"
StorePlatforms == {"github", "render", "doesnotexist", "__proto__"}

\* every name that becomes an own key, in the order the serializer writes
\* them
PlatformOrder == KnownPlatforms \o <<"doesnotexist">>

\* every field name, in the order the serializer writes them
FieldOrder ==
    <<"token", "defaultRepo", "defaultBranch", "workflowFile", "projectId",
      "environment", "accountId", "projectName", "apiKey", "serviceId",
      "appId", "accessKeyId", "secretAccessKey", "region", "teamId",
      "appName", "siteId", "webhookUrl", "botToken">>

\* string values stored or set in the environment
Values == <<"", "a", "b", "c", "env_tok", "rnd_abc123", "dev">>

Range(s) == {s[i] : i \in DOMAIN s}

\* the object {} : no own keys
EmptyObj == [k \in {} |-> ""]

\* the object with the single key k
Obj1(k, v) == [x \in {k} |-> v]

\* { ...a, ...b } : own keys of a, then of b, b's value winning
Spread(a, b) ==
    [k \in DOMAIN a \cup DOMAIN b |-> IF k \in DOMAIN b THEN b[k] ELSE a[k]]

\* the creds arguments of storeCredentials used for each platform
StoreInputs(p) ==
    CASE p = "github" ->
             { Spread(Obj1("token", "a"), Obj1("defaultRepo", "b")),
               Obj1("token", "c"), Obj1("token", "") }
      [] p = "render" -> { Obj1("apiKey", "rnd_abc123") }
      [] OTHER -> { Obj1("token", "a") }

\* the creds arguments used where the file is also damaged from outside
FaultStoreInputs(p) ==
    CASE p = "github" -> { Obj1("token", "a"), Obj1("defaultRepo", "b") }
      [] p = "render" -> { Obj1("apiKey", "rnd_abc123") }
      [] p = "__proto__" -> { Obj1("token", "a") }
      [] OTHER -> {}

----------------------------------------------------------------------------
(* Process environment and key derivation (module load) *)

\* process.env.NAME || dflt : an unset and an empty variable both give dflt
EnvOr(e, name, dflt) ==
    IF name \in DOMAIN e /\ e[name] # "" THEN e[name] ELSE dflt

DefaultVaultKey == "devops-agent-default-vault-key-32c"

\* const VAULT_KEY = process.env.MCP_VAULT_KEY || '<default>'
VAULT_KEY(e) == EnvOr(e, "MCP_VAULT_KEY", DefaultVaultKey)

\* createHash('sha256').update(s).digest() : an ideal hash
Sha256(s) == [sha256 |-> s]

\* the key of the default passphrase whatever MCP_VAULT_KEY holds
DeriveKeyDefaultOnly(e) == Sha256(DefaultVaultKey)

\* const KEY = createHash('sha256').update(VAULT_KEY).digest()
DeriveKey(e) == Sha256(VAULT_KEY(e))

\* the passphrases of the model, used to number the keys
Passphrases == <<DefaultVaultKey, "s3cret">>

\* the environments a process of the model is started in
EnvChoices ==
    { EmptyObj,
      Spread(Obj1("MCP_VAULT_KEY", ""),
             Spread(Obj1("GITHUB_TOKEN", "env_tok"),
                    Spread(Obj1("GITHUB_DEFAULT_BRANCH", "dev"),
                           Obj1("RENDER_API_KEY", "")))),
      Spread(Obj1("MCP_VAULT_KEY", "s3cret"),
             Obj1("GITHUB_TOKEN", "env_tok")) }

----------------------------------------------------------------------------
(* JSON: values, JSON.stringify, JSON.parse *)

\* a quoted string token, and a punctuation or literal token
Q(s) == [q |-> TRUE, s |-> s]
P(s) == [q |-> FALSE, s |-> s]
LBrace == P("{")
RBrace == P("}")
NullTok == P("null")

\* values JSON.parse can return from the decrypted text
JsVault(c, t) == [type |-> "vault", credentials |-> c, updatedAt |-> t]
JsNull == [type |-> "null", credentials |-> EmptyObj, updatedAt |-> ""]
JsPlainObject == [type |-> "object", credentials |-> EmptyObj, updatedAt |-> ""]

\* padStart(2, '0') of a number below 100
TwoDigits(n) == IF n < 10 THEN "0" \o ToString(n) ELSE ToString(n)

\* new Date().toISOString() at clock value t, the whole seconds since
\* 2024-01-01T00:00:00.000Z (less than an hour)
toISOString(t) ==
    "2024-01-01T00:" \o TwoDigits(t \div 60) \o ":" \o TwoDigits(t % 60)
    \o ".000Z"

\* the keys of S in serialization order
KeysIn(order, S) == SelectSeq(order, LAMBDA k : k \in S)

\* the fields written with every empty value left out
RECURSIVE FieldTokensSkipEmpty(_, _)
FieldTokensSkipEmpty(rec, keys) ==
    IF keys = <<>> THEN <<>>
    ELSE (IF rec[Head(keys)] = "" THEN <<>>
          ELSE <<Q(Head(keys)), Q(rec[Head(keys)])>>)
         \o FieldTokensSkipEmpty(rec, Tail(keys))

\* the key and value tokens of one credential set
RECURSIVE FieldTokens(_, _)
FieldTokens(rec, keys) ==
    IF keys = <<>> THEN <<>>
    ELSE <<Q(Head(keys)), Q(rec[Head(keys)])>> \o FieldTokens(rec, Tail(keys))

\* JSON.stringify of one credential set
StringifyRecord(rec) ==
    <<LBrace>> \o FieldTokens(rec, KeysIn(FieldOrder, DOMAIN rec)) \o <<RBrace>>

RECURSIVE PlatformTokens(_, _)
PlatformTokens(creds, keys) ==
    IF keys = <<>> THEN <<>>
    ELSE <<Q(Head(keys))>> \o StringifyRecord(creds[Head(keys)])
         \o PlatformTokens(creds, Tail(keys))

\* JSON.stringify(value)
JSONstringify(v) ==
    CASE v.type = "null" -> <<NullTok>>
      [] v.type = "object" -> <<LBrace, RBrace>>
      [] OTHER ->
           <<LBrace, Q("credentials"), LBrace>>
           \o PlatformTokens(v.credentials,
                             KeysIn(PlatformOrder, DOMAIN v.credentials))
           \o <<RBrace, Q("updatedAt"), Q(v.updatedAt), RBrace>>

ParseFail == [ok |-> FALSE, map |-> EmptyObj, next |-> 0]

RECURSIVE ParseFields(_, _, _)
ParseFields(toks, i, acc) ==
    IF i > Len(toks) THEN ParseFail
    ELSE IF toks[i] = RBrace THEN [ok |-> TRUE, map |-> acc, next |-> i + 1]
    ELSE IF toks[i].q /\ i + 1 <= Len(toks) /\ toks[i + 1].q
         THEN ParseFields(toks, i + 2,
                          Spread(acc, Obj1(toks[i].s, toks[i + 1].s)))
    ELSE ParseFail

RECURSIVE ParsePlatforms(_, _, _)
ParsePlatforms(toks, i, acc) ==
    IF i > Len(toks) THEN ParseFail
    ELSE IF toks[i] = RBrace THEN [ok |-> TRUE, map |-> acc, next |-> i + 1]
    ELSE IF toks[i].q /\ i + 1 <= Len(toks) /\ toks[i + 1] = LBrace
         THEN LET r == ParseFields(toks, i + 2, EmptyObj)
              IN  IF r.ok
                  THEN ParsePlatforms(toks, r.next,
                                      Spread(acc, Obj1(toks[i].s, r.map)))
                  ELSE ParseFail
    ELSE ParseFail

SyntaxError == [ok |-> FALSE, value |-> JsNull]

\* JSON.parse(text) : the value, or a SyntaxError
JSONparse(toks) ==
    IF toks = <<NullTok>> THEN [ok |-> TRUE, value |-> JsNull]
    ELSE IF toks = <<LBrace, RBrace>> THEN [ok |-> TRUE, value |-> JsPlainObject]
    ELSE IF Len(toks) >= 3 /\ toks[1] = LBrace /\ toks[2] = Q("credentials")
            /\ toks[3] = LBrace
         THEN LET r == ParsePlatforms(toks, 4, EmptyObj)
              IN  IF r.ok /\ r.next + 2 = Len(toks)
                     /\ toks[r.next] = Q("updatedAt")
                     /\ toks[r.next + 1].q /\ toks[r.next + 2] = RBrace
                  THEN [ok |-> TRUE,
                        value |-> JsVault(r.map, toks[r.next + 1].s)]
                  ELSE SyntaxError
    ELSE SyntaxError

----------------------------------------------------------------------------
(* AES-256-GCM and the envelope *)

\* every token a serialized vault of the model can hold; a token's code is
\* its index (the bytes of its UTF-8 encoding)
Alphabet ==
    <<LBrace, RBrace, NullTok, Q("credentials"), Q("updatedAt")>>
    \o [i \in 1..Len(PlatformOrder) |-> Q(PlatformOrder[i])]
    \o [i \in 1..Len(FieldOrder) |-> Q(FieldOrder[i])]
    \o [i \in 1..Len(Values) |-> Q(Values[i])]
    \o [i \in 1..(MaxTime + 2) |-> Q(toISOString(i - 1))]

\* a byte is a value of 0..Modulus-1
Modulus == 16 * 16

\* the byte sequence decoded where it is no text of the model (U+FFFD)
ReplacementTok == P("?")

\* Buffer of the text: cipher.update(text, 'utf8') reads these bytes
Utf8Encode(toks) ==
    [i \in 1..Len(toks) |->
        CHOOSE c \in 1..Len(Alphabet) : Alphabet[c] = toks[i]]

\* buffer.toString() / final('utf8')
Utf8Decode(bytes) ==
    [i \in 1..Len(bytes) |->
        IF bytes[i] \in 1..Len(Alphabet) THEN Alphabet[bytes[i]]
        ELSE ReplacementTok]

\* the number of a key, from the passphrase it was hashed from
KeyNum(key) ==
    CHOOSE n \in 1..Len(Passphrases) : Passphrases[n] = key.sha256

\* the keystream byte at position i under (key, iv)
KeyStream(key, iv, i) == (KeyNum(key) * 89 + iv.id * 37 + i * 11) % Modulus

\* cipher.update : counter-mode encryption
CipherUpdate(key, iv, bytes) ==
    [i \in 1..Len(bytes) |-> (bytes[i] + KeyStream(key, iv, i)) % Modulus]

\* decipher.update : counter-mode decryption
DecipherUpdate(key, iv, bytes) ==
    [i \in 1..Len(bytes) |->
        (bytes[i] + Modulus - KeyStream(key, iv, i)) % Modulus]

\* iv and tag are 16 bytes long
IvBytes == 16
TagBytes == 16

\* the tag GCM computes over the ciphertext under (key, iv)
GcmMac(key, iv, ct) ==
    [key |-> key, iv |-> iv.id, ivlen |-> iv.len, ct |-> ct]

\* cipher.getAuthTag() : the full 16-byte tag
getAuthTag(key, iv, ct) ==
    [mac |-> GcmMac(key, iv, ct), len |-> TagBytes, delta |-> 0]

\* tag lengths setAuthTag accepts when no authTagLength option is given
ValidGcmTagLengths == {4, 8, 12, 13, 14, 15, 16}

HexDigits ==
    <<"0", "1", "2", "3", "4", "5", "6", "7",
      "8", "9", "a", "b", "c", "d", "e", "f">>

\* buffer.toString('hex') : two lowercase digits a byte
toHex(bytes) ==
    [i \in 1..(2 * Len(bytes)) |->
        IF i % 2 = 1 THEN HexDigits[(bytes[(i + 1) \div 2] \div 16) + 1]
        ELSE HexDigits[(bytes[i \div 2] % 16) + 1]]

HexVal(d) == (CHOOSE n \in 1..16 : HexDigits[n] = d) - 1

\* Buffer.from(s, 'hex') : whole pairs of digits (an odd last digit is dropped)
fromHex(digits) ==
    [i \in 1..(Len(digits) \div 2) |->
        16 * HexVal(digits[2 * i - 1]) + HexVal(digits[2 * i])]

\* the backing file: absent, or its text
FileShape(kind, iv, tag, data) ==
    [kind |-> kind, iv |-> iv, tag |-> tag, data |-> data]
NoIv == [id |-> 0, len |-> 0]
NoTag == [mac |-> GcmMac(Sha256(""), NoIv, <<>>), len |-> 0, delta |-> 0]
FileMissing == FileShape("missing", NoIv, NoTag, <<>>)
\* a file whose text is not JSON
FileNotJson == FileShape("notjson", NoIv, NoTag, <<>>)
\* a file whose text is the JSON object {} : no iv, tag or data
FileJsonNoFields == FileShape("json", NoIv, NoTag, <<>>)

\* encrypt(text) with the cipher left out: the bytes of the text as data
encryptNothing(text, key, iv) ==
    FileShape("envelope", iv, getAuthTag(key, iv, Utf8Encode(text)),
              toHex(Utf8Encode(text)))

\* encrypt(text) with an iv computed from the text in place of the one
\* randomBytes(16) returned
encryptIvFromText(text, key, iv) ==
    LET derived == [id |-> (Len(text) % NumIvs) + 1, len |-> iv.len]
        encrypted == CipherUpdate(key, derived, Utf8Encode(text))
    IN  FileShape("envelope", derived, getAuthTag(key, derived, encrypted),
                  toHex(encrypted))

\* encrypt(text) with the iv randomBytes(16) returned
encrypt(text, key, iv) ==
    LET encrypted == CipherUpdate(key, iv, Utf8Encode(text))
    IN  FileShape("envelope", iv, getAuthTag(key, iv, encrypted),
                  toHex(encrypted))

\* an exception of decrypt: what was thrown, and whether decipher.update had
\* run on the data by then
DecryptThrows(error, attempted) ==
    [ok |-> FALSE, text |-> <<>>, error |-> error, attempted |-> attempted]

\* the error of decipher.final() where the tag does not verify
AuthError == "Unsupported state or unable to authenticate data"

\* decrypt(encryptedJson) : the text, or an exception.  JSON.parse throws on
\* a text that is no JSON; Buffer.from(undefined, 'hex') throws where the
\* object has no iv; createDecipheriv takes an iv of any length but zero;
\* setAuthTag throws on a tag length that GCM does not allow; final() throws
\* where the tag does not verify.
decrypt(f, key) ==
    IF f.kind = "json" THEN DecryptThrows("ERR_INVALID_ARG_TYPE", FALSE)
    ELSE IF f.kind # "envelope" THEN DecryptThrows("SyntaxError", FALSE)
    ELSE IF f.iv.len = 0 THEN DecryptThrows("ERR_CRYPTO_INVALID_IV", FALSE)
    ELSE IF f.tag.len \notin ValidGcmTagLengths
         THEN DecryptThrows("ERR_CRYPTO_INVALID_AUTH_TAG", FALSE)
    ELSE LET ct == fromHex(f.data)
             pt == DecipherUpdate(key, f.iv, ct)
         IN  IF f.tag.delta = 0 /\ f.tag.mac = GcmMac(key, f.iv, ct)
             THEN [ok |-> TRUE, text |-> Utf8Decode(pt), error |-> "",
                   attempted |-> TRUE]
             ELSE DecryptThrows(AuthError, TRUE)

----------------------------------------------------------------------------
(* Vault operations, as functions of the state they read *)

\* { credentials: {}, updatedAt: new Date().toISOString() }
EmptyVault(t) == JsVault(EmptyObj, toISOString(t))

\* loadVault() with the file f, the key and the clock
loadVault(f, key, t) ==
    IF f.kind = "missing" THEN EmptyVault(t)
    ELSE LET d == decrypt(f, key)
         IN  IF ~d.ok THEN EmptyVault(t)
             ELSE LET j == JSONparse(d.text)
                  IN  IF j.ok THEN j.value ELSE EmptyVault(t)

\* saveVault(data) : the text written to the file
saveVault(data, key, t, iv) ==
    encrypt(JSONstringify(JsVault(data.credentials, toISOString(t))), key, iv)

\* vault.credentials cannot be read: the value is null or has no such field
NoCredentials(vault) == vault.type # "vault"

\* the entry of platform p in the envFallbacks table of getCredentials, under
\* the environment e
envFallbacks(e, p) ==
        CASE p = "github" ->
                 [token |-> EnvOr(e, "GITHUB_TOKEN", ""),
                  defaultRepo |-> EnvOr(e, "GITHUB_DEFAULT_REPO", ""),
                  defaultBranch |-> EnvOr(e, "GITHUB_DEFAULT_BRANCH", "main"),
                  workflowFile |-> EnvOr(e, "GITHUB_WORKFLOW_FILE", "deploy.yml")]
          [] p = "railway" ->
                 [token |-> EnvOr(e, "RAILWAY_TOKEN", ""),
                  projectId |-> EnvOr(e, "RAILWAY_PROJECT_ID", ""),
                  environment |-> EnvOr(e, "RAILWAY_ENVIRONMENT", "production")]
          [] p = "cloudflare" ->
                 [token |-> EnvOr(e, "CLOUDFLARE_TOKEN", ""),
                  accountId |-> EnvOr(e, "CLOUDFLARE_ACCOUNT_ID", ""),
                  projectName |-> EnvOr(e, "CLOUDFLARE_PROJECT_NAME", "")]
          [] p = "render" ->
                 [apiKey |-> EnvOr(e, "RENDER_API_KEY", ""),
                  serviceId |-> EnvOr(e, "RENDER_SERVICE_ID", "")]
          [] p = "digitalocean" ->
                 [token |-> EnvOr(e, "DO_TOKEN", ""),
                  appId |-> EnvOr(e, "DO_APP_ID", "")]
          [] p = "aws" ->
                 [accessKeyId |-> EnvOr(e, "AWS_ACCESS_KEY_ID", ""),
                  secretAccessKey |-> EnvOr(e, "AWS_SECRET_ACCESS_KEY", ""),
                  region |-> EnvOr(e, "AWS_REGION", "us-east-1"),
                  appId |-> EnvOr(e, "AWS_AMPLIFY_APP_ID", "")]
          [] p = "vercel" ->
                 [token |-> EnvOr(e, "VERCEL_TOKEN", ""),
                  teamId |-> EnvOr(e, "VERCEL_TEAM_ID", ""),
                  projectId |-> EnvOr(e, "VERCEL_PROJECT_ID", "")]
          [] p = "flyio" ->
                 [token |-> EnvOr(e, "FLY_API_TOKEN", ""),
                  appName |-> EnvOr(e, "FLY_APP_NAME", "")]
          [] p = "netlify" ->
                 [token |-> EnvOr(e, "NETLIFY_TOKEN", ""),
                  siteId |-> EnvOr(e, "NETLIFY_SITE_ID", "")]
          [] p = "slack" ->
                 [webhookUrl |-> EnvOr(e, "SLACK_WEBHOOK_URL", ""),
                  botToken |-> EnvOr(e, "SLACK_BOT_TOKEN", "")]
          [] OTHER ->
                 [webhookUrl |-> EnvOr(e, "DISCORD_WEBHOOK_URL", "")]

\* the environment variables the envFallbacks entry of platform p reads
EnvNames(p) ==
    CASE p = "github" ->
             {"GITHUB_TOKEN", "GITHUB_DEFAULT_REPO", "GITHUB_DEFAULT_BRANCH",
              "GITHUB_WORKFLOW_FILE"}
      [] p = "railway" ->
             {"RAILWAY_TOKEN", "RAILWAY_PROJECT_ID", "RAILWAY_ENVIRONMENT"}
      [] p = "cloudflare" ->
             {"CLOUDFLARE_TOKEN", "CLOUDFLARE_ACCOUNT_ID",
              "CLOUDFLARE_PROJECT_NAME"}
      [] p = "render" -> {"RENDER_API_KEY", "RENDER_SERVICE_ID"}
      [] p = "digitalocean" -> {"DO_TOKEN", "DO_APP_ID"}
      [] p = "aws" ->
             {"AWS_ACCESS_KEY_ID", "AWS_SECRET_ACCESS_KEY", "AWS_REGION",
              "AWS_AMPLIFY_APP_ID"}
      [] p = "vercel" ->
             {"VERCEL_TOKEN", "VERCEL_TEAM_ID", "VERCEL_PROJECT_ID"}
      [] p = "flyio" -> {"FLY_API_TOKEN", "FLY_APP_NAME"}
      [] p = "netlify" -> {"NETLIFY_TOKEN", "NETLIFY_SITE_ID"}
      [] p = "slack" -> {"SLACK_WEBHOOK_URL", "SLACK_BOT_TOKEN"}
      [] p = "discord" -> {"DISCORD_WEBHOOK_URL"}
      [] OTHER -> {}

\* envFallbacks[platform] || {} with the render key falling back to the
\* github token
envCredsShared(e, platform) ==
    IF platform = "render"
    THEN [envFallbacks(e, platform) EXCEPT
            !.apiKey = EnvOr(e, "RENDER_API_KEY", EnvOr(e, "GITHUB_TOKEN", ""))]
    ELSE IF platform \in Range(KnownPlatforms) THEN envFallbacks(e, platform)
    ELSE EmptyObj

\* envFallbacks[platform] || {} as the spread that follows sees it: the own
\* keys of the table's entry; a value found on Object.prototype has none
envCreds(e, platform) ==
    IF platform \in Range(KnownPlatforms) THEN envFallbacks(e, platform)
    ELSE EmptyObj

\* vault.credentials[platform] || {} with the vault's record never found
storedNothing(vault, platform) == EmptyObj

\* vault.credentials[platform] || {} as the spread that follows sees it: the
\* own keys of the record; a value found on Object.prototype has none
stored(vault, platform) ==
    IF platform \in DOMAIN vault.credentials THEN vault.credentials[platform]
    ELSE EmptyObj

\* { ...(vault.credentials[platform] || {}), ...creds }
mergeCreds(existing, creds) == Spread(existing, creds)

\* the merge of getCredentials with empty vault values not overriding
resolveNonEmptyOnly(envc, st) ==
    [k \in DOMAIN envc \cup DOMAIN st |->
        IF k \in DOMAIN st /\ (st[k] # "" \/ k \notin DOMAIN envc) THEN st[k]
        ELSE envc[k]]

\* the merge of getCredentials with the fields left out that no source gives
\* a value: not stored, and empty in the table
resolveDropEmpty(envc, st) ==
    [k \in {x \in DOMAIN envc \cup DOMAIN st :
                x \in DOMAIN st \/ envc[x] # ""} |->
        IF k \in DOMAIN st THEN st[k] ELSE envc[k]]

\* return { ...envCreds, ...stored }
resolve(envc, st) == Spread(envc, st)

\* the record of a call: its name and platform argument, and what it
\* returned: a value (bool, map or list), or an exception (threw)
Returned(op, platform, bool, map) ==
    [op |-> op, platform |-> platform, creds |-> EmptyObj, threw |-> FALSE,
     bool |-> bool, map |-> map, list |-> {}]
Threw(op, platform) ==
    [op |-> op, platform |-> platform, creds |-> EmptyObj, threw |-> TRUE,
     bool |-> FALSE, map |-> EmptyObj, list |-> {}]

\* getCredentials(platform) rejecting a platform that is in no table
getCredentialsStrict(f, key, e, t, platform) ==
    LET vault == loadVault(f, key, t)
    IN  IF NoCredentials(vault) \/ platform \notin Range(KnownPlatforms)
        THEN Threw("getCredentials", platform)
        ELSE Returned("getCredentials", platform, FALSE,
                      resolve(envCreds(e, platform), stored(vault, platform)))

\* getCredentials(platform) in the state (f, key, e, t)
getCredentialsResult(f, key, e, t, platform) ==
    LET vault == loadVault(f, key, t)
    IN  IF NoCredentials(vault) THEN Threw("getCredentials", platform)
        ELSE Returned("getCredentials", platform, FALSE,
                      resolve(envCreds(e, platform), stored(vault, platform)))

\* Object.values(creds).some(...) with a test that every value passes
SomeValue(creds) == DOMAIN creds # {}

\* Object.values(creds).some((v) => v && v.length > 0)
SomeNonEmpty(creds) == \E k \in DOMAIN creds : creds[k] # ""

\* hasCredentials(platform) in the state (f, key, e, t)
hasCredentialsResult(f, key, e, t, platform) ==
    LET r == getCredentialsResult(f, key, e, t, platform)
    IN  IF r.threw THEN Threw("hasCredentials", platform)
        ELSE Returned("hasCredentials", platform, SomeNonEmpty(r.map), EmptyObj)

\* listStoredPlatforms() in the state (f, key, t)
listStoredPlatformsResult(f, key, t) ==
    LET vault == loadVault(f, key, t)
    IN  IF NoCredentials(vault) THEN Threw("listStoredPlatforms", "")
        ELSE [Returned("listStoredPlatforms", "", FALSE, EmptyObj)
                EXCEPT !.list = DOMAIN vault.credentials]

----------------------------------------------------------------------------
(* Deployment history (db.ts): devops-agent.json *)

\* an optional property of an object: <<>> where it is absent or undefined,
\* <<v>> where it holds v; JSON.stringify writes no undefined property, so
\* the two are one in the file
Undefined == <<>>
Some(v) == <<v>>

\* a DeploymentRecord: its id (the sequence of its characters), status,
\* createdAt (the serial number of the insertion that made it), updatedAt and
\* the optional durationMs and url; the other properties are carried along
\* unchanged by every function and are left out
DeploymentRecord(id, status, createdAt, updatedAt) ==
    [id |-> id, status |-> status, createdAt |-> createdAt,
     updatedAt |-> updatedAt, durationMs |-> Undefined, url |-> Undefined]

\* devops-agent.json: missing, not JSON, or the JSON text of a DBSchema:
\* the deployments, the ids of the audit log entries and the scheduled jobs
\* (id and enabled); version is 1 throughout
DBSchema(kind, deployments, auditLog, scheduledJobs) ==
    [kind |-> kind, deployments |-> deployments, auditLog |-> auditLog,
     scheduledJobs |-> scheduledJobs]
DbMissing == DBSchema("missing", <<>>, <<>>, <<>>)
DbJson(deployments) == DBSchema("json", deployments, <<>>, <<>>)

\* loadDB() : the DBSchema in the file, the empty one where the file is
\* missing or does not parse
loadDB(d) == IF d.kind = "json" THEN d ELSE DbJson(<<>>)

\* saveDB(db) : writeFileSync(DB_FILE, JSON.stringify(db, null, 2))
saveDB(d) == [d EXCEPT !.kind = "json"]

\* the number of audit log entries insertAuditLog keeps
KeepAuditLog == 1000

\* the number of deployments insertDeployment keeps
KeepDeployments == 500

\* a trim that keeps the oldest records: slice(-500)
sliceOldest(list) ==
    IF Len(list) > KeepDeployments
    THEN SubSeq(list, Len(list) - KeepDeployments + 1, Len(list))
    ELSE list

\* if (length > 500) db.deployments = db.deployments.slice(0, 500)
sliceNewest(list) ==
    IF Len(list) > KeepDeployments THEN SubSeq(list, 1, KeepDeployments)
    ELSE list

\* db.deployments.unshift(record), then the trim
insertInto(list, record) == sliceNewest(<<record>> \o list)

\* db.deployments.findIndex((d) => d.id === id) : 0 stands for -1
findIndex(list, id) ==
    IF \E i \in DOMAIN list : list[i].id = id
    THEN CHOOSE i \in DOMAIN list :
             /\ list[i].id = id
             /\ \A j \in 1..(i - 1) : list[j].id # id
    ELSE 0

\* the updates argument of updateDeployment: the set of its own keys and
\* their values
Updates(keys, status, durationMs, url) ==
    [keys |-> keys, status |-> status, durationMs |-> durationMs, url |-> url]

\* { ...record, ...updates, updatedAt: new Date().toISOString() }
applyUpdates(record, u, t) ==
    [id |-> record.id,
     status |-> IF "status" \in u.keys THEN u.status ELSE record.status,
     createdAt |-> record.createdAt,
     updatedAt |-> toISOString(t),
     durationMs |-> IF "durationMs" \in u.keys THEN u.durationMs
                    ELSE record.durationMs,
     url |-> IF "url" \in u.keys THEN u.url ELSE record.url]

\* the file after updateDeployment(id, updates): written only where the id
\* is found
updateIn(d, id, u, t) ==
    LET loaded == loadDB(d)
        list == loaded.deployments
        idx == findIndex(list, id)
    IN  IF idx # 0
        THEN saveDB([loaded EXCEPT !.deployments =
                        [list EXCEPT ![idx] = applyUpdates(list[idx], u, t)]])
        ELSE d

----------------------------------------------------------------------------
(* Deployment monitoring (monitor.ts): checkDeploymentStatus *)

\* /^\d+$/.test(deploymentId), the id being the sequence of its characters
IsDigits(id) ==
    /\ Len(id) >= 1
    /\ \A i \in DOMAIN id :
          id[i] \in {"0", "1", "2", "3", "4", "5", "6", "7", "8", "9"}

\* creds.name, "" where the property is absent (both are falsy)
Prop(creds, name) == IF name \in DOMAIN creds THEN creds[name] ELSE ""

\* what checkDeploymentStatus returns
Status(completed, success, status, conclusion, url) ==
    [completed |-> completed, success |-> success, status |-> status,
     conclusion |-> conclusion, url |-> url]

\* checkDeploymentStatus up to its first await: the branch it takes, decided
\* by the platform, the id and the credentials read at that moment; "threw"
\* where getCredentials throws
checkStart(deploymentId, platform, repo, f, key, e, t) ==
    IF platform = "github" /\ IsDigits(deploymentId)
    THEN LET r == getCredentialsResult(f, key, e, t, "github")
             targetRepo == IF repo # "" THEN repo
                           ELSE Prop(r.map, "defaultRepo")
         IN  IF r.threw THEN "threw"
             ELSE IF Prop(r.map, "token") = "" \/ targetRepo = ""
             THEN "error" ELSE "github"
    ELSE IF platform = "render"
    THEN LET r == getCredentialsResult(f, key, e, t, "render")
         IN  IF r.threw THEN "threw"
             ELSE IF Prop(r.map, "apiKey") = ""
                     \/ Prop(r.map, "serviceId") = ""
             THEN "error" ELSE "render"
    ELSE "default"

\* bodies the GitHub runs endpoint answers with: status, conclusion (absent
\* or null while the run is in progress) and html_url; the last is an error
\* body, which has none of them
GithubRuns ==
    { [status |-> Some("completed"), conclusion |-> Some("success"),
       html_url |-> Some("https://github.com/o/r/actions/runs/42")],
      [status |-> Some("completed"), conclusion |-> Some("failure"),
       html_url |-> Some("https://github.com/o/r/actions/runs/42")],
      [status |-> Some("in_progress"), conclusion |-> Undefined,
       html_url |-> Some("https://github.com/o/r/actions/runs/42")],
      [status |-> Undefined, conclusion |-> Undefined,
       html_url |-> Undefined] }

\* the status property of the bodies the Render deploys endpoint answers with
RenderStatuses ==
    { Some("live"), Some("failed"), Some("canceled"), Some("deactivated"),
      Some("build_in_progress"), Undefined }

\* lines 65-72: the result made from a GitHub run
githubStatus(run) ==
    Status(run.status = Some("completed"),
           run.status = Some("completed") /\ run.conclusion = Some("success"),
           run.status, run.conclusion, run.html_url)

\* lines 85-87: the result made from a Render deploy
renderStatus(status) ==
    Status(status \in {Some("live"), Some("failed"), Some("canceled"),
                       Some("deactivated")},
           status = Some("live"), status, Undefined, Undefined)

\* the results checkDeploymentStatus can resolve to on the branch it took
checkResults(branch) ==
    CASE branch = "error" ->
             { Status(TRUE, FALSE, Some("error"), Undefined, Undefined) }
      [] branch = "github" -> { githubStatus(run) : run \in GithubRuns }
      [] branch = "render" -> { renderStatus(s) : s \in RenderStatuses }
      [] branch = "default" ->
             { Status(FALSE, FALSE, Some("in_progress"), Undefined, Undefined) }
      [] OTHER -> {}

----------------------------------------------------------------------------
(* The state machine *)

\* the values randomBytes(16) can return
IVs == {[id |-> n, len |-> IvBytes] : n \in 1..NumIvs}

NoCall == Returned("none", "", FALSE, EmptyObj)

\* the processes that write the same backing file
Writers == {1, 2}

\* a writer that is in no call
Idle ==
    [phase |-> "idle", op |-> "none", platform |-> "", creds |-> EmptyObj,
     vault |-> JsNull, text |-> FileMissing]

\* no watchDeployment call in progress, no check made
NotWatching ==
    [pc |-> "idle", deploymentId |-> <<>>, platform |-> "", repo |-> "",
     timeoutMs |-> 0, elapsed |-> 0, check |-> "none",
     last |-> Status(FALSE, FALSE, Undefined, Undefined, Undefined),
     calls |-> 0]

Init ==
    /\ file = FileMissing
    /\ env \in EnvChoices
    /\ KEY = DeriveKey(env)
    /\ now = 0
    /\ ret = NoCall
    /\ pending = [w \in Writers |-> Idle]
    /\ disk = "ok"
    /\ db = DbMissing
    /\ inserted = 0
    /\ watch = NotWatching

\* writeFileSync(VAULT_FILE, text) returning normally whatever the disk does
writeFileSyncSilent(f, text, d) ==
    IF d = "ok" THEN [threw |-> FALSE, file |-> text]
    ELSE [threw |-> FALSE, file |-> f]

\* writeFileSync(VAULT_FILE, text) : the file is opened for writing, which
\* empties it, and then written.  On a read-only file system the open fails
\* and the file is left as it was; on a full one the write fails and the
\* file is left without a complete text.
writeFileSync(f, text, d) ==
    CASE d = "ok" -> [threw |-> FALSE, file |-> text]
      [] d = "readonly" -> [threw |-> TRUE, file |-> f]
      [] OTHER -> [threw |-> TRUE, file |-> FileNotJson]

\* the vault as the running process loads it, in this state and in the next
Loaded == loadVault(file, KEY, now)
LoadedNext == loadVault(file', KEY', now')

\* vault.credentials[platform] = { ...existing, ...creds } : the vault that
\* storeCredentials passes to saveVault.  The assignment to "__proto__" runs
\* the setter of Object.prototype: the merged object becomes the prototype
\* of vault.credentials and no own key is made, so JSON.stringify writes
\* the vault without it.  Every other name becomes an own key.
storeInVault(vault, platform, creds) ==
    IF platform = "__proto__" THEN vault
    ELSE [vault EXCEPT !.credentials =
            Spread(vault.credentials,
                   Obj1(platform, mergeCreds(stored(vault, platform), creds)))]

\* the platforms of the vault that was written to the file f, as a holder
\* of the key it was written under reads it
heldPlatforms(f, t) == DOMAIN loadVault(f, f.tag.mac.key, t).credentials

\* storeCredentials(platform, creds); the record keeps the platforms the
\* file held when it was overwritten
storeCredentials(platform, creds) ==
    \E vault \in {loadVault(file, KEY, now)} :
        IF NoCredentials(vault)
        THEN /\ ret' = [Threw("storeCredentials", platform)
                            EXCEPT !.creds = creds]
             /\ UNCHANGED <<file, env, KEY, now, pending, disk, db, inserted, watch>>
        ELSE \E data \in {storeInVault(vault, platform, creds)} :
             \E iv \in IVs :
             \E w \in {writeFileSync(file, saveVault(data, KEY, now, iv), disk)} :
                 /\ file' = w.file
                 /\ ret' = [(IF w.threw THEN Threw("storeCredentials", platform)
                             ELSE Returned("storeCredentials", platform, FALSE,
                                           EmptyObj))
                               EXCEPT !.creds = creds,
                                      !.list = heldPlatforms(file, now)]
                 /\ UNCHANGED <<env, KEY, now, pending, disk, db, inserted, watch>>

\* getCredentials(platform) writing the empty vault where it found no file
getCredentialsBootstraps(platform) ==
    /\ ret' = getCredentialsResult(file, KEY, env, now, platform)
    /\ file' = IF file.kind = "missing"
               THEN saveVault(EmptyVault(now), KEY, now,
                              [id |-> 1, len |-> IvBytes])
               ELSE file
    /\ UNCHANGED <<env, KEY, now, pending, disk, db, inserted, watch>>

\* getCredentials(platform)
getCredentials(platform) ==
    /\ ret' = getCredentialsResult(file, KEY, env, now, platform)
    /\ UNCHANGED <<file, env, KEY, now, pending, disk, db, inserted, watch>>

\* listStoredPlatforms()
listStoredPlatforms ==
    /\ ret' = listStoredPlatformsResult(file, KEY, now)
    /\ UNCHANGED <<file, env, KEY, now, pending, disk, db, inserted, watch>>

\* the object without the key k
Without(obj, k) == [x \in DOMAIN obj \ {k} |-> obj[x]]

\* delete vault.credentials[platform] : the vault that deleteCredentials
\* passes to saveVault
deleteFromVault(vault, platform) ==
    [vault EXCEPT !.credentials = Without(vault.credentials, platform)]

\* deleteCredentials(platform) with saveVault after the if, on every call
deleteCredentialsAlwaysSaves(platform) ==
    \E vault \in {loadVault(file, KEY, now)} :
        IF NoCredentials(vault)
        THEN /\ ret' = Threw("deleteCredentials", platform)
             /\ UNCHANGED <<file, env, KEY, now, pending, disk, db, inserted, watch>>
        ELSE \E data \in {deleteFromVault(vault, platform)} :
             \E iv \in IVs :
             \E w \in {writeFileSync(file, saveVault(data, KEY, now, iv), disk)} :
                 /\ file' = w.file
                 /\ ret' = IF w.threw THEN Threw("deleteCredentials", platform)
                           ELSE Returned("deleteCredentials", platform,
                                         platform \in DOMAIN vault.credentials
                                                       \cup ObjectPrototypeNames,
                                         EmptyObj)
                 /\ UNCHANGED <<env, KEY, now, pending, disk, db, inserted, watch>>

\* deleteCredentials(platform).  if (vault.credentials[platform]) is true
\* of an own record and of a name found on Object.prototype; the delete
\* removes an own key only, and the vault is saved in both cases
deleteCredentials(platform) ==
    \E vault \in {loadVault(file, KEY, now)} :
        IF NoCredentials(vault)
        THEN /\ ret' = Threw("deleteCredentials", platform)
             /\ UNCHANGED <<file, env, KEY, now, pending, disk, db, inserted, watch>>
        ELSE IF platform \in DOMAIN vault.credentials \cup ObjectPrototypeNames
        THEN \E data \in {deleteFromVault(vault, platform)} :
             \E iv \in IVs :
             \E w \in {writeFileSync(file, saveVault(data, KEY, now, iv), disk)} :
                 /\ file' = w.file
                 /\ ret' = IF w.threw THEN Threw("deleteCredentials", platform)
                           ELSE Returned("deleteCredentials", platform, TRUE,
                                         EmptyObj)
                 /\ UNCHANGED <<env, KEY, now, pending, disk, db, inserted, watch>>
        ELSE /\ ret' = Returned("deleteCredentials", platform, FALSE, EmptyObj)
             /\ UNCHANGED <<file, env, KEY, now, pending, disk, db, inserted, watch>>

\* hasCredentials(platform)
hasCredentials(platform) ==
    /\ ret' = hasCredentialsResult(file, KEY, env, now, platform)
    /\ UNCHANGED <<file, env, KEY, now, pending, disk, db, inserted, watch>>

\* time passes between two calls
Tick ==
    /\ now < MaxTime
    /\ now' = now + 1
    /\ ret' = NoCall
    /\ UNCHANGED <<file, env, KEY, pending, disk, db, inserted, watch>>

\* the data directory made anew at every start
dataDirRecreated(f) == FileMissing

\* if (!existsSync(DATA_DIR)) mkdirSync(DATA_DIR) : a file in an existing
\* data directory is left as it is
dataDirAtStart(f) == f

\* a fresh process on the same data directory: the module is loaded again and
\* the key is derived from the passphrase of the new environment
ProcessStart(e) ==
    /\ env' = e
    /\ KEY' = DeriveKey(e)
    /\ file' = dataDirAtStart(file)
    /\ ret' = Returned("start", "", FALSE, EmptyObj)
    /\ UNCHANGED <<now, pending, disk, db, inserted, watch>>

----------------------------------------------------------------------------
(* What happens to the file outside the vault's own calls *)

\* the hex digit d with its lowest bit flipped
FlipDigit(d) ==
    IF HexVal(d) % 2 = 0 THEN HexDigits[HexVal(d) + 2] ELSE HexDigits[HexVal(d)]

\* positions of the data at which the model flips a bit
TamperPositions(f) == {1, Len(f.data)} \ {0}

\* the envelope is as encrypt wrote it
Pristine(f) ==
    /\ f.kind = "envelope"
    /\ f.iv.len = IvBytes
    /\ f.tag.len = TagBytes
    /\ f.tag.delta = 0
    /\ f.tag.mac.ct = fromHex(f.data)

\* one bit of e.data is flipped
TamperData ==
    /\ Pristine(file)
    /\ \E i \in TamperPositions(file) :
          file' = [file EXCEPT !.data[i] = FlipDigit(file.data[i])]
    /\ ret' = NoCall
    /\ UNCHANGED <<env, KEY, now, pending, disk, db, inserted, watch>>

\* one bit of e.tag is flipped
TamperTag ==
    /\ Pristine(file)
    /\ file' = [file EXCEPT !.tag.delta = 1]
    /\ ret' = NoCall
    /\ UNCHANGED <<env, KEY, now, pending, disk, db, inserted, watch>>

\* e.tag is cut to its first n bytes; the model cuts it to 4
TruncateTag ==
    /\ Pristine(file)
    /\ \E n \in {4} :
          /\ n < file.tag.len
          /\ file' = [file EXCEPT !.tag.len = n]
    /\ ret' = NoCall
    /\ UNCHANGED <<env, KEY, now, pending, disk, db, inserted, watch>>

\* e.iv is cut to its first n bytes
TruncateIv ==
    /\ Pristine(file)
    /\ \E n \in {12} :
          /\ n < file.iv.len
          /\ file' = [file EXCEPT !.iv.len = n]
    /\ ret' = NoCall
    /\ UNCHANGED <<env, KEY, now, pending, disk, db, inserted, watch>>

\* the file is removed
RemoveFile ==
    /\ file.kind # "missing"
    /\ file' = FileMissing
    /\ ret' = NoCall
    /\ UNCHANGED <<env, KEY, now, pending, disk, db, inserted, watch>>

\* texts, other than a serialized vault, that a holder of the key encrypts
ForeignTexts == { <<NullTok>>, <<LBrace, RBrace>>, <<RBrace>> }

\* the file is overwritten from outside: with text that is not JSON, with
\* JSON that is no envelope, or with an envelope of a foreign text
ReplaceFile ==
    /\ \/ file' = FileNotJson
       \/ file' = FileJsonNoFields
       \/ \E text \in ForeignTexts, iv \in IVs : file' = encrypt(text, KEY, iv)
    /\ file' # file
    /\ ret' = NoCall
    /\ UNCHANGED <<env, KEY, now, pending, disk, db, inserted, watch>>

\* the vault's calls, process restarts and the clock; the file is changed by
\* the vault alone, or removed
Next ==
    \/ \E p \in StorePlatforms : \E c \in StoreInputs(p) : storeCredentials(p, c)
    \/ \E p \in Platforms : getCredentials(p)
    \/ \E p \in Platforms : hasCredentials(p)
    \/ \E p \in Platforms : deleteCredentials(p)
    \/ listStoredPlatforms
    \/ \E e \in EnvChoices : ProcessStart(e)
    \/ Tick
    \/ RemoveFile

Spec == Init /\ [][Next]_vars

\* the same calls on a file that is also damaged or replaced from outside
NextFaults ==
    \/ \E p \in StorePlatforms : \E c \in FaultStoreInputs(p) : storeCredentials(p, c)
    \/ \E p \in Platforms : getCredentials(p)
    \/ \E p \in Platforms : hasCredentials(p)
    \/ \E p \in Platforms : deleteCredentials(p)
    \/ listStoredPlatforms
    \/ \E e \in EnvChoices : ProcessStart(e)
    \/ Tick
    \/ TamperData
    \/ TamperTag
    \/ TruncateTag
    \/ TruncateIv
    \/ RemoveFile
    \/ ReplaceFile

SpecFaults == Init /\ [][NextFaults]_vars

----------------------------------------------------------------------------
(* One process alone on its file *)

\* the calls of one process, each run to completion, and the clock; nothing
\* else touches the file and the process is not started again
NextOneProcess ==
    \/ \E p \in StorePlatforms : \E c \in StoreInputs(p) : storeCredentials(p, c)
    \/ \E p \in Platforms : deleteCredentials(p)
    \/ \E p \in Platforms : getCredentials(p)
    \/ listStoredPlatforms
    \/ Tick

SpecOneProcess == Init /\ [][NextOneProcess]_vars

----------------------------------------------------------------------------
(* Every platform of the fallback table *)

\* the platforms whose records are written where all platforms are asked for
RegistryStorePlatforms == {"aws", "slack"}

\* the creds arguments used there
RegistryStoreInputs(p) ==
    CASE p = "aws" -> { Obj1("accessKeyId", "a") }
      [] OTHER -> { Obj1("webhookUrl", "a") }

NextRegistry ==
    \/ \E p \in RegistryStorePlatforms :
          \E c \in RegistryStoreInputs(p) : storeCredentials(p, c)
    \/ \E p \in RegistryStorePlatforms : deleteCredentials(p)
    \/ \E p \in Range(KnownPlatforms) : getCredentials(p)
    \/ \E p \in Range(KnownPlatforms) : hasCredentials(p)
    \/ \E e \in EnvChoices : ProcessStart(e)

SpecRegistry == Init /\ [][NextRegistry]_vars

----------------------------------------------------------------------------
(* The environment changing under a running process *)

\* the platforms called where the environment changes
EnvPlatforms == {"slack", "render"}

\* the creds arguments used there; {} is the call that names no field
EnvStoreInputs(p) ==
    CASE p = "slack" ->
             { EmptyObj, Obj1("webhookUrl", "a"), Obj1("botToken", "") }
      [] OTHER -> { EmptyObj, Obj1("apiKey", "rnd_abc123") }

\* process.env[name] = value in the running process: the module is not
\* loaded again, so KEY stays as derived
SetEnv(name, value) ==
    /\ (IF name \in DOMAIN env THEN <<env[name]>> ELSE <<>>) # <<value>>
    /\ env' = Spread(env, Obj1(name, value))
    /\ ret' = Returned("setenv", "", FALSE, EmptyObj)
    /\ UNCHANGED <<file, KEY, now, pending, disk, db, inserted, watch>>

NextEnv ==
    \/ \E p \in EnvPlatforms : \E c \in EnvStoreInputs(p) : storeCredentials(p, c)
    \/ \E p \in EnvPlatforms : getCredentials(p)
    \/ \E p \in EnvPlatforms : hasCredentials(p)
    \/ \E p \in EnvPlatforms : deleteCredentials(p)
    \/ listStoredPlatforms
    \/ \E n \in {"SLACK_WEBHOOK_URL", "MCP_VAULT_KEY"}, v \in {"", "hook_url"} :
          SetEnv(n, v)
    \/ \E e \in EnvChoices : ProcessStart(e)

SpecEnv == Init /\ [][NextEnv]_vars

----------------------------------------------------------------------------
(* Failing writes and crashes *)

\* the platforms called where the disk fails
DiskPlatforms == {"github", "render"}

\* the file system changes its condition: it is ok, read-only or full
DiskChange(d) ==
    /\ d # disk
    /\ disk' = d
    /\ ret' = NoCall
    /\ UNCHANGED <<file, env, KEY, now, pending, db, inserted, watch>>

\* the file a crash inside writeFileSync(VAULT_FILE, text) leaves: the one
\* from before (not opened yet), one without a complete text (opened and
\* emptied, written in part or not at all), or the new text
crashedWrite(f, text) == {f, FileNotJson, text}

\* the process dies inside the saveVault of storeCredentials(platform,
\* creds) and is started again; the record keeps the platforms the vault held
\* before the call
storeCredentialsCrash(platform, creds) ==
    \E vault \in {loadVault(file, KEY, now)} :
        /\ disk = "ok"
        /\ ~NoCredentials(vault)
        /\ \E data \in {storeInVault(vault, platform, creds)} :
           \E iv \in IVs :
              file' \in crashedWrite(file, saveVault(data, KEY, now, iv))
        /\ ret' = [Returned("crash in storeCredentials", platform, FALSE,
                            EmptyObj)
                      EXCEPT !.creds = creds,
                             !.list = DOMAIN vault.credentials]
        /\ UNCHANGED <<env, KEY, now, pending, disk, db, inserted, watch>>

\* the process dies inside the saveVault of deleteCredentials(platform)
deleteCredentialsCrash(platform) ==
    \E vault \in {loadVault(file, KEY, now)} :
        /\ disk = "ok"
        /\ ~NoCredentials(vault)
        /\ platform \in DOMAIN vault.credentials \cup ObjectPrototypeNames
        /\ \E data \in {deleteFromVault(vault, platform)} :
           \E iv \in IVs :
              file' \in crashedWrite(file, saveVault(data, KEY, now, iv))
        /\ ret' = [Returned("crash in deleteCredentials", platform, FALSE,
                            EmptyObj)
                      EXCEPT !.list = DOMAIN vault.credentials]
        /\ UNCHANGED <<env, KEY, now, pending, disk, db, inserted, watch>>

NextDisk ==
    \/ \E p \in DiskPlatforms : \E c \in FaultStoreInputs(p) : storeCredentials(p, c)
    \/ \E p \in DiskPlatforms : getCredentials(p)
    \/ \E p \in DiskPlatforms : deleteCredentials(p)
    \/ listStoredPlatforms
    \/ \E d \in {"ok", "readonly", "full"} : DiskChange(d)
    \/ \E p \in DiskPlatforms : \E c \in FaultStoreInputs(p) :
          storeCredentialsCrash(p, c)
    \/ \E p \in DiskPlatforms : deleteCredentialsCrash(p)

SpecDisk == Init /\ [][NextDisk]_vars

----------------------------------------------------------------------------
(* Two processes writing the same file *)

\* the platforms the two writers call with
RacePlatforms == {"github", "render"}

\* the creds arguments of the two writers
RaceStoreInputs(p) ==
    CASE p = "github" -> { Obj1("token", "a") }
      [] OTHER -> { Obj1("apiKey", "rnd_abc123") }

\* a writer after its loadVault, inside the writeFileSync of its saveVault
\* (with the text it is writing), and after its return
InCall(phase, op, platform, creds, vault) ==
    [phase |-> phase, op |-> op, platform |-> platform, creds |-> creds,
     vault |-> vault, text |-> FileMissing]

\* the length of "k":"v",... for the keys of one credential set
RECURSIVE FieldsLength(_, _)
FieldsLength(rec, keys) ==
    IF keys = <<>> THEN 0
    ELSE Len(Head(keys)) + Len(rec[Head(keys)]) + 5
         + (IF Tail(keys) = <<>> THEN 0 ELSE 1)
         + FieldsLength(rec, Tail(keys))

\* the length of "platform":{...},... for the platforms of a vault
RECURSIVE PlatformsLength(_, _)
PlatformsLength(creds, keys) ==
    IF keys = <<>> THEN 0
    ELSE Len(Head(keys)) + 3 + 2
         + FieldsLength(creds[Head(keys)],
                        KeysIn(FieldOrder, DOMAIN creds[Head(keys)]))
         + (IF Tail(keys) = <<>> THEN 0 ELSE 1)
         + PlatformsLength(creds, Tail(keys))

\* the number of characters of JSON.stringify(vault):
\* {"credentials":{...},"updatedAt":"..."}
StringifyLength(v) ==
    2 + 14 + 2
    + PlatformsLength(v.credentials,
                      KeysIn(PlatformOrder, DOMAIN v.credentials))
    + 1 + 12 + Len(v.updatedAt) + 2

\* the length of the file, as far as two envelopes differ in it: iv and tag
\* have their fixed lengths and data has two digits for every character of
\* the text that was encrypted; 0 for the empty file
FileLength(f) ==
    IF f.kind = "envelope"
    THEN StringifyLength(
             JSONparse(decrypt(f, f.tag.mac.key).text).value)
    ELSE 0

\* the write of writeFileSync, at offset 0 of the file as it stands: the
\* text alone where the file is no longer than it, otherwise the text
\* followed by the rest of what another process wrote since this one
\* truncated the file, which is no JSON
writeAtStart(f, text) ==
    IF FileLength(f) > FileLength(text) THEN FileNotJson ELSE text

\* const vault = loadVault() of storeCredentials in writer w
beginStore(w, platform, creds) ==
    /\ pending[w].phase \in {"idle", "returned"}
    /\ pending' = [pending EXCEPT ![w] =
                      InCall("loaded", "storeCredentials", platform, creds,
                             loadVault(file, KEY, now))]
    /\ ret' = NoCall
    /\ UNCHANGED <<file, env, KEY, now, disk, db, inserted, watch>>

\* const vault = loadVault() and the test of deleteCredentials in writer w:
\* where vault.credentials[platform] is falsy the call returns false at once
beginDelete(w, platform) ==
    /\ pending[w].phase \in {"idle", "returned"}
    /\ \E vault \in {loadVault(file, KEY, now)} :
          IF platform \in DOMAIN vault.credentials \cup ObjectPrototypeNames
          THEN /\ pending' = [pending EXCEPT ![w] =
                                InCall("loaded", "deleteCredentials", platform,
                                       EmptyObj, vault)]
               /\ ret' = NoCall
          ELSE /\ pending' = [pending EXCEPT ![w] =
                                InCall("returned", "deleteCredentials",
                                       platform, EmptyObj, vault)]
               /\ ret' = Returned("deleteCredentials", platform, FALSE,
                                  EmptyObj)
    /\ UNCHANGED <<file, env, KEY, now, disk, db, inserted, watch>>

\* the change writer w makes to the vault its own loadVault returned: the
\* file is not read again and nothing is compared before the overwrite
changedVault(w) ==
    IF pending[w].op = "storeCredentials"
    THEN storeInVault(pending[w].vault, pending[w].platform, pending[w].creds)
    ELSE deleteFromVault(pending[w].vault, pending[w].platform)

\* saveVault in writer w up to the open of writeFileSync: the text is
\* encrypted, and the file is opened for writing, which truncates it; until
\* the write, any process that reads the file finds it empty
openTruncates(w) ==
    /\ pending[w].phase = "loaded"
    /\ \E iv \in IVs :
          pending' = [pending EXCEPT
                         ![w].phase = "writing",
                         ![w].text = saveVault(changedVault(w), KEY, now, iv)]
    /\ file' = FileNotJson
    /\ ret' = NoCall
    /\ UNCHANGED <<env, KEY, now, disk, db, inserted, watch>>

\* the write and close of writeFileSync and the return of storeCredentials
\* in writer w
finishStore(w) ==
    /\ pending[w].phase = "writing"
    /\ pending[w].op = "storeCredentials"
    /\ file' = writeAtStart(file, pending[w].text)
    /\ ret' = [Returned("storeCredentials", pending[w].platform, FALSE,
                        EmptyObj)
                  EXCEPT !.creds = pending[w].creds]
    /\ pending' = [pending EXCEPT ![w].phase = "returned"]
    /\ UNCHANGED <<env, KEY, now, disk, db, inserted, watch>>

\* the write and close of writeFileSync and the return of deleteCredentials
\* in writer w
finishDelete(w) ==
    /\ pending[w].phase = "writing"
    /\ pending[w].op = "deleteCredentials"
    /\ file' = writeAtStart(file, pending[w].text)
    /\ ret' = Returned("deleteCredentials", pending[w].platform, TRUE,
                       EmptyObj)
    /\ pending' = [pending EXCEPT ![w].phase = "returned"]
    /\ UNCHANGED <<env, KEY, now, disk, db, inserted, watch>>

NextRace ==
    \/ \E w \in Writers, p \in RacePlatforms :
          \E c \in RaceStoreInputs(p) : beginStore(w, p, c)
    \/ \E w \in Writers : openTruncates(w)
    \/ \E w \in Writers : finishStore(w)
    \/ \E w \in Writers, p \in RacePlatforms : beginDelete(w, p)
    \/ \E w \in Writers : finishDelete(w)
    \/ \E p \in RacePlatforms : getCredentials(p)
    \/ \E p \in RacePlatforms : hasCredentials(p)
    \/ listStoredPlatforms

SpecRace == Init /\ [][NextRace]_vars

----------------------------------------------------------------------------
(* One process saving step by step *)

\* the calls of one process that change the vault, each in its steps: the
\* loadVault, the encryption and the open of writeFileSync, the write; and
\* the clock
NextSave ==
    \/ \E c \in RaceStoreInputs("github") : beginStore(1, "github", c)
    \/ openTruncates(1)
    \/ finishStore(1)
    \/ beginDelete(1, "github")
    \/ finishDelete(1)
    \/ Tick

SpecSave == Init /\ [][NextSave]_vars

----------------------------------------------------------------------------
(* The deployment history under insertDeployment and updateDeployment *)

\* insertDeployment calls made in one run of the model
MaxInserts == 2

\* the audit log entries, and the scheduled jobs, the file comes to hold
MaxLogged == 1

\* the decimal digits of n >= 1, as characters
RECURSIVE Decimal(_)
Decimal(n) ==
    IF n < 10 THEN <<ToString(n)>>
    ELSE Decimal(n \div 10) \o <<ToString(n % 10)>>

\* the history n earlier insertDeployment calls leave: the k-th call
\* inserted the record with id k, and createdAt counts down from 0 at the
\* newest
EarlierInserts(n) ==
    [i \in 1..n |->
        DeploymentRecord(Decimal(n - i + 1), "success", 1 - i, toISOString(0))]

\* the file is missing, is no JSON, or holds the history of 0, 499 or 500
\* earlier insertDeployment calls
InitDb ==
    /\ file = FileMissing
    /\ env = EmptyObj
    /\ KEY = DeriveKey(env)
    /\ now = 0
    /\ ret = NoCall
    /\ pending = [w \in Writers |-> Idle]
    /\ disk = "ok"
    /\ db \in {DbMissing, DBSchema("notjson", <<>>, <<>>, <<>>)}
              \cup {DbJson(EarlierInserts(n)) :
                        n \in {0, KeepDeployments - 1, KeepDeployments}}
    /\ inserted = 0
    /\ watch = NotWatching

\* insertDeployment(record)
insertDeployment(record) ==
    /\ inserted < MaxInserts
    /\ inserted' = inserted + 1
    /\ \E loaded \in {loadDB(db)} :
          db' = saveDB([loaded EXCEPT !.deployments =
                           insertInto(loaded.deployments, record)])
    /\ ret' = [op |-> "insertDeployment", record |-> record]
    /\ UNCHANGED <<file, env, KEY, now, pending, disk, watch>>

\* updateDeployment(id, updates)
updateDeployment(id, updates) ==
    /\ db' = updateIn(db, id, updates, now)
    /\ ret' = [op |-> "updateDeployment", id |-> id, updates |-> updates]
    /\ UNCHANGED <<file, env, KEY, now, pending, disk, inserted, watch>>

\* insertAuditLog(entry) : unshift, then slice(0, 1000)
insertAuditLog(entry) ==
    /\ Len(loadDB(db).auditLog) < MaxLogged
    /\ \E loaded \in {loadDB(db)} :
       \E list \in {<<entry>> \o loaded.auditLog} :
          db' = saveDB([loaded EXCEPT !.auditLog =
                           IF Len(list) > KeepAuditLog
                           THEN SubSeq(list, 1, KeepAuditLog) ELSE list])
    /\ ret' = [op |-> "insertAuditLog", id |-> entry]
    /\ UNCHANGED <<file, env, KEY, now, pending, disk, inserted, watch>>

\* insertScheduledJob(job) : push
insertScheduledJob(job) ==
    /\ Len(loadDB(db).scheduledJobs) < MaxLogged
    /\ db' = saveDB([loadDB(db) EXCEPT !.scheduledJobs = Append(@, job)])
    /\ ret' = [op |-> "insertScheduledJob", id |-> job.id]
    /\ UNCHANGED <<file, env, KEY, now, pending, disk, inserted, watch>>

\* deleteScheduledJob(id) : the jobs with another id are kept and the file
\* is saved whether one was removed or not; true where one was
deleteScheduledJob(id) ==
    /\ db' = saveDB([loadDB(db) EXCEPT !.scheduledJobs =
                        SelectSeq(@, LAMBDA j : j.id # id)])
    /\ ret' = [op |-> "deleteScheduledJob", id |-> id,
                bool |-> Len(loadDB(db').scheduledJobs)
                             < Len(loadDB(db).scheduledJobs)]
    /\ UNCHANGED <<file, env, KEY, now, pending, disk, inserted, watch>>

\* the ids inserted are one that the oldest earlier record has and a new
\* one; updateDeployment is called with these and with one no record has
NextDb ==
    \/ insertAuditLog(<<"a", "1">>)
    \/ insertScheduledJob([id |-> <<"j", "1">>, enabled |-> TRUE])
    \/ deleteScheduledJob(<<"j", "1">>)
    \/ \E id \in { <<"1">>, <<"n", "e", "w">> } :
          insertDeployment(DeploymentRecord(id, "queued", inserted + 1,
                                            toISOString(now)))
    \/ \E id \in { <<"1">>, <<"n", "e", "w">>, <<"x">> } :
          updateDeployment(id, Updates({"status"}, "failed", Undefined,
                                       Undefined))
    \/ Tick

SpecDb == InitDb /\ [][NextDb]_vars

----------------------------------------------------------------------------
(* watchDeployment: the polling loop *)

\* const pollInterval = 10_000
pollInterval == 10000

\* timeoutMs = 300_000 where the caller passes none
DefaultTimeoutMs == 300000

\* watchDeployment calls begun in one run of the model
MaxWatches == 1

\* the arguments of watchDeployment: an id of digits and one that is not, a
\* platform of each branch of checkDeploymentStatus, repo absent or given

\* milliseconds a fetch of checkDeploymentStatus takes, and by which the
\* timer of the sleep fires late (whole seconds: `now` counts seconds of the
\* clock that Date.now() reads in milliseconds)
CheckDurations == {0, 10000}
TimerLateness == {0, 10000}

\* the environments of the watching process: nothing configured, and the
\* GitHub and Render credentials configured
WatchEnvs ==
    { EmptyObj,
      Spread(Obj1("GITHUB_TOKEN", "env_tok"),
             Spread(Obj1("RENDER_API_KEY", "rnd_abc123"),
                    Obj1("RENDER_SERVICE_ID", "srv-1"))) }

\* the history holds a deployment with id 42 and none with id d1
InitWatch ==
    /\ file = FileMissing
    /\ env \in WatchEnvs
    /\ KEY = DeriveKey(env)
    /\ now = 0
    /\ ret = NoCall
    /\ pending = [w \in Writers |-> Idle]
    /\ disk = "ok"
    /\ db = DbJson(<<DeploymentRecord(<<"4", "2">>, "deploying", 0,
                                      toISOString(0))>>)
    /\ inserted = 0
    /\ watch = NotWatching

\* what watchDeployment resolves to
WatchReturn(status, conclusion, url, durationMs) ==
    [op |-> "watchDeployment", threw |-> FALSE, status |-> status,
     conclusion |-> conclusion, url |-> url, durationMs |-> durationMs]

\* a loop that tests nothing: it polls again however long it has run
loopHeadForever(w) ==
    /\ watch' = [w EXCEPT !.pc = "check",
                          !.check = checkStart(w.deploymentId, w.platform,
                                               w.repo, file, KEY, env, now)]
    /\ ret' = NoCall
    /\ UNCHANGED <<file, env, KEY, pending, disk, db, inserted>>

\* while (Date.now() - start < timeoutMs) : the test, and either the call of
\* checkDeploymentStatus up to its first await or the return of 'timeout'
loopHead(w) ==
    /\ IF w.elapsed < w.timeoutMs
       THEN /\ watch' = [w EXCEPT !.pc = "check",
                                  !.check = checkStart(w.deploymentId,
                                                w.platform, w.repo,
                                                file, KEY, env, now)]
            /\ ret' = NoCall
       ELSE /\ watch' = [w EXCEPT !.pc = "idle", !.check = "none"]
            /\ ret' = WatchReturn(Some("timeout"), Undefined, Undefined,
                                  w.elapsed)
    /\ UNCHANGED <<file, env, KEY, pending, disk, db, inserted>>

\* watchDeployment(deploymentId, platform, repo, timeoutMs) up to its first
\* await
watchDeployment(deploymentId, platform, repo, timeoutMs) ==
    /\ watch.pc = "idle"
    /\ watch.calls < MaxWatches
    /\ now' = now
    /\ loopHead([pc |-> "idle", deploymentId |-> deploymentId,
                 platform |-> platform, repo |-> repo,
                 timeoutMs |-> timeoutMs, elapsed |-> 0, check |-> "none",
                 last |-> NotWatching.last, calls |-> watch.calls + 1])

\* the awaited checkDeploymentStatus resolves: on completed the record is
\* updated and the status returned, otherwise the sleep begins
checkReturns ==
    /\ watch.pc = "check"
    /\ \E status \in checkResults(watch.check) :
       \E d \in (IF watch.check \in {"github", "render"} THEN CheckDurations
                 ELSE {0}) :
       \E durationMs \in {watch.elapsed + d} :
          /\ now' = now + d \div 1000
          /\ IF status.completed
             THEN /\ db' = updateIn(db, watch.deploymentId,
                               Updates({"status", "durationMs", "url"},
                                       IF status.success THEN "success"
                                       ELSE "failed",
                                       Some(durationMs), status.url),
                               now + d \div 1000)
                  /\ watch' = [watch EXCEPT !.pc = "idle", !.check = "none",
                                            !.elapsed = durationMs,
                                            !.last = status]
                  /\ ret' = WatchReturn(status.status, status.conclusion,
                                        status.url, durationMs)
             ELSE /\ watch' = [watch EXCEPT !.pc = "sleep", !.check = "none",
                                            !.elapsed = durationMs,
                                            !.last = status]
                  /\ ret' = NoCall
                  /\ UNCHANGED db
    /\ UNCHANGED <<file, env, KEY, pending, disk, inserted>>

\* the awaited checkDeploymentStatus rejects (getCredentials, fetch or
\* res.json() throws): watchDeployment rejects with it
checkThrows ==
    /\ watch.pc = "check"
    /\ watch.check \in {"github", "render", "threw"}
    /\ \E d \in CheckDurations :
          /\ watch' = [watch EXCEPT !.pc = "idle", !.check = "none",
                                    !.elapsed = watch.elapsed + d]
          /\ now' = now + d \div 1000
    /\ ret' = [WatchReturn(Undefined, Undefined, Undefined, 0)
                  EXCEPT !.threw = TRUE]
    /\ UNCHANGED <<file, env, KEY, pending, disk, db, inserted>>

\* setTimeout(r, pollInterval) fires, not before pollInterval has passed, and
\* the loop tests its condition again
timerFires ==
    /\ watch.pc = "sleep"
    /\ \E late \in TimerLateness :
          /\ now' = now + (pollInterval + late) \div 1000
          /\ loopHead([watch EXCEPT !.elapsed = watch.elapsed + pollInterval
                                                 + late])

NextWatch ==
    \/ \E id \in { <<"4", "2">>, <<"d", "1">> } :
       \E p \in {"github", "render", "vercel"} :
       \E r \in {"", "o/r"} :
       \E t \in {0, 25000, DefaultTimeoutMs} : watchDeployment(id, p, r, t)
    \/ checkReturns
    \/ checkThrows
    \/ timerFires

SpecWatch == InitWatch /\ [][NextWatch]_vars

\* the event loop runs a continuation whose promise has settled and a timer
\* that is due: a check that returns is resumed, and so is the sleep
SpecWatchFair ==
    SpecWatch /\ WF_vars(checkReturns) /\ WF_vars(timerFires)

----------------------------------------------------------------------------
(* Properties *)


\* C1: storeCredentials(platform, fields) is a non-destructive shallow merge:
\* afterwards credentials[platform] holds every key of fields with its new
\* value and every other key of the previous record with its previous value,
\* and the records of all other platforms are unchanged.
C1_StoreIsShallowMerge ==
    [][ret'.op = "storeCredentials"
          => LET p == ret'.platform
                 c == ret'.creds
                 before == Loaded.credentials
                 old == IF p \in DOMAIN before THEN before[p] ELSE EmptyObj
             IN  /\ ~ret'.threw
                 /\ LoadedNext.credentials =
                      [q \in DOMAIN before \cup {p} |->
                          IF q = p
                          THEN [k \in DOMAIN old \cup DOMAIN c |->
                                   IF k \in DOMAIN c THEN c[k] ELSE old[k]]
                          ELSE before[q]]]_vars

\* C1 failing input: storeCredentials("__proto__", {token: a}) returned on a
\* vault holding the github record; the file was rewritten and holds the
\* github record alone, the fields just stored are in no record
C1_ProtoStoreLost ==
    /\ ret.op = "storeCredentials" /\ ret.platform = "__proto__"
    /\ ~ret.threw
    /\ ret.creds = [token |-> "a"]
    /\ ret.list = {"github"}
    /\ file.kind = "envelope"
    /\ DOMAIN Loaded.credentials = {"github"}
    /\ stored(Loaded, "__proto__") = EmptyObj

\* the stored record and the fallback record of the platform of the last call
StoredNow == stored(Loaded, ret.platform)
EnvNow == envCreds(env, ret.platform)

\* C2: precedence of sources in getCredentials: a field the vault holds no
\* value for has the environment fallback value in the result (and is absent
\* where the table has none), and after storeCredentials(platform,
\* {field: v}) with non-empty v the result for the field is v, whatever the
\* environment value is.
C2_VaultWinsOverEnv ==
    [][/\ ret'.op = "getCredentials"
          => \A st \in {stored(LoadedNext, ret'.platform)} :
             \A ev \in {envCreds(env', ret'.platform)} :
                /\ ~ret'.threw
                /\ \A k \in DOMAIN ev \ DOMAIN st :
                      k \in DOMAIN ret'.map /\ ret'.map[k] = ev[k]
                /\ \A k \in DOMAIN ret'.map : k \in DOMAIN ev \cup DOMAIN st
       /\ ret'.op = "storeCredentials"
          => \A r \in {getCredentialsResult(file', KEY', env', now',
                                            ret'.platform)} :
                /\ ~r.threw
                /\ \A k \in DOMAIN ret'.creds :
                      ret'.creds[k] # ""
                      => k \in DOMAIN r.map /\ r.map[k] = ret'.creds[k]]_vars

\* C2 failing input: storeCredentials("__proto__", {token: a}) returned, and
\* getCredentials("__proto__") returns the empty mapping: the result has no
\* token
C2_ProtoStoreNotReturned ==
    /\ ret.op = "storeCredentials" /\ ret.platform = "__proto__"
    /\ ~ret.threw
    /\ ret.creds = [token |-> "a"]
    /\ file.kind = "envelope"
    /\ \A r \in {getCredentialsResult(file, KEY, env, now, "__proto__")} :
          ~r.threw /\ r.map = EmptyObj

\* C3 as claimed: where the vault holds an empty-string value for a field
\* whose environment default is non-empty, getCredentials returns the
\* environment default for that field.
C3_EmptyVaultValueKeepsEnvDefault ==
    ret.op = "getCredentials" /\ ~ret.threw
    => \A k \in DOMAIN StoredNow \cap DOMAIN EnvNow :
          (StoredNow[k] = "" /\ EnvNow[k] # "") => ret.map[k] = EnvNow[k]

\* C3 as amended: the resolver overrides the environment default of a field
\* exactly when the vault holds a value for that platform and field, empty or
\* not: an empty-string value in the vault is returned in place of a
\* non-empty environment default.
C3_AnyVaultValueOverrides ==
    ret.op = "getCredentials" /\ ~ret.threw
    => /\ DOMAIN ret.map = DOMAIN EnvNow \cup DOMAIN StoredNow
       /\ \A k \in DOMAIN ret.map :
             ret.map[k] = IF k \in DOMAIN StoredNow THEN StoredNow[k]
                          ELSE EnvNow[k]

\* C3 witness: the vault holds the empty token, GITHUB_TOKEN is env_tok, and
\* getCredentials("github") returned the empty token
C3_Witness ==
    /\ ret.op = "getCredentials" /\ ret.platform = "github" /\ ~ret.threw
    /\ "token" \in DOMAIN StoredNow /\ StoredNow["token"] = ""
    /\ EnvNow["token"] = "env_tok"
    /\ ret.map["token"] = ""

\* C4: round trip of persistence: the vault V that storeCredentials or
\* deleteCredentials hands to saveVault (with the updatedAt saveVault sets) is
\* exactly what loadVault returns afterwards under the same key.
C4_SaveLoadRoundTrip ==
    [][/\ ret'.op = "storeCredentials" /\ ~ret'.threw
          => LoadedNext = [storeInVault(Loaded, ret'.platform, ret'.creds)
                             EXCEPT !.updatedAt = toISOString(now)]
       /\ ret'.op = "deleteCredentials" /\ ret'.bool
          => LoadedNext = [deleteFromVault(Loaded, ret'.platform)
                             EXCEPT !.updatedAt = toISOString(now)]]_vars

\* C4 witness: a vault with no credentials left was saved at time 1 and is
\* loaded from the file
C4_Witness ==
    /\ ret.op = "deleteCredentials" /\ ret.bool
    /\ decrypt(file, KEY).ok
    /\ Loaded = JsVault(EmptyObj, toISOString(1))

\* the envelope in the file was made under another key than the process's,
\* or its data or tag was changed after encryption
WrongKeyOrModified ==
    /\ file.kind = "envelope"
    /\ file.tag.mac.key # KEY \/ ~Pristine(file)

\* C5 as claimed: decrypt of an envelope produced under another key, or of an
\* envelope whose data or tag was modified after encryption, fails and
\* returns no plaintext.
C5_DecryptFailsClosed ==
    WrongKeyOrModified => ~decrypt(file, KEY).ok

\* C5 failing input: the tag of an envelope written under the process's key
\* is cut to its first 4 bytes, and decrypt returns the text that was
\* encrypted
C5_TruncatedTagAccepted ==
    /\ file.kind = "envelope"
    /\ file.tag.len = 4
    /\ file.tag.mac.key = KEY
    /\ decrypt(file, KEY).ok
    /\ Utf8Encode(decrypt(file, KEY).text)
         = DecipherUpdate(KEY, file.iv, file.tag.mac.ct)

\* C6: durability across process lifetimes: a fresh process started on the
\* same file with the same passphrase and the same environment variables of
\* a platform returns from getCredentials of that platform the mapping the
\* process before it returned.
C6_DurableAcrossRestart ==
    [][ret'.op = "start"
          => \A p \in Platforms :
                (VAULT_KEY(env') = VAULT_KEY(env)
                   /\ envCreds(env', p) = envCreds(env, p))
                => getCredentialsResult(file', KEY', env', now', p)
                     = getCredentialsResult(file, KEY, env, now, p)]_vars

\* C6 witness: a process was started on a file that holds the render key, and
\* it reads that key from it
C6_Witness ==
    /\ ret.op = "start"
    /\ "render" \in DOMAIN Loaded.credentials
    /\ getCredentialsResult(file, KEY, env, now, "render").map["apiKey"]
         = "rnd_abc123"

\* C7: deleteCredentials(platform) returns true exactly when the vault holds
\* an entry for the platform at the time of the call; after a call that
\* returned true the vault holds no record of the platform, and a
\* deleteCredentials of the same platform that follows it at once returns
\* false.
C7_DeleteReturnsWhetherRemoved ==
    [][ret'.op = "deleteCredentials"
          => /\ ~ret'.threw
             /\ ret'.bool = (ret'.platform \in DOMAIN Loaded.credentials)
             /\ ret'.bool
                => \A after \in {LoadedNext} :
                      /\ ret'.platform \notin DOMAIN after.credentials
                      /\ stored(after, ret'.platform) = EmptyObj
             /\ (ret.op = "deleteCredentials" /\ ret.bool
                   /\ ret.platform = ret'.platform)
                => ~ret'.bool]_vars

\* C7 failing input: deleteCredentials("constructor") returned true at time
\* 1 on a vault that holds the github record alone, as it did before the
\* call (no call of the model stores under that name), and the file was
\* rewritten with the time of the call
C7_InheritedNameReturnsTrue ==
    /\ ret.op = "deleteCredentials" /\ ret.platform = "constructor"
    /\ ret.bool /\ ~ret.threw
    /\ now = 1
    /\ DOMAIN Loaded.credentials = {"github"}
    /\ Loaded.updatedAt = toISOString(1)

\* the file holds no vault the process can load: it is missing, is no JSON,
\* is no envelope, was written under another key or changed afterwards, or
\* decrypts to a JSON value that is no VaultFile
NoVaultInFile ==
    \/ file.kind # "envelope"
    \/ WrongKeyOrModified
    \/ DecipherUpdate(KEY, file.iv, file.tag.mac.ct)
         \in {Utf8Encode(text) : text \in ForeignTexts}

\* C8 as claimed: whatever the file holds, getCredentials and hasCredentials
\* return without throwing, and where the file holds no vault the result is
\* the environment fallback of the platform.
C8_ReadsNeverThrow ==
    /\ ret.op = "getCredentials"
       => ~ret.threw /\ (NoVaultInFile => ret.map = EnvNow)
    /\ ret.op = "hasCredentials"
       => ~ret.threw /\ (NoVaultInFile => ret.bool = SomeNonEmpty(EnvNow))

\* C8 failing input: the file is an envelope, under the process's key, of the
\* JSON text null, and getCredentials threw
C8_NullVaultThrows ==
    /\ ret.op = "getCredentials" /\ ret.threw
    /\ Pristine(file) /\ file.tag.mac.key = KEY
    /\ decrypt(file, KEY).text = <<NullTok>>

\* C9: missing-file bootstrap: with no backing file every call returns
\* without throwing and the loaded vault has no platforms, and a
\* storeCredentials(p, f) then creates the file, the vault holding exactly
\* the record p -> f.
C9_MissingFileBootstrap ==
    [][/\ file'.kind = "missing"
          => /\ ~ret'.threw
             /\ LoadedNext = EmptyVault(now')
             /\ ret'.op = "listStoredPlatforms" => ret'.list = {}
       /\ (file.kind = "missing" /\ ret'.op = "storeCredentials")
          => /\ ~ret'.threw
             /\ file'.kind = "envelope"
             /\ decrypt(file', KEY').ok
             /\ LoadedNext.credentials = Obj1(ret'.platform, ret'.creds)]_vars

\* C9 failing input: with no file in place storeCredentials("__proto__",
\* {token: a}) returned; it made the file, and the vault in it holds no
\* record
C9_ProtoStoreMakesEmptyVault ==
    /\ ret.op = "storeCredentials" /\ ret.platform = "__proto__"
    /\ ~ret.threw
    /\ ret.creds = [token |-> "a"]
    /\ ret.list = {}
    /\ file.kind = "envelope" /\ decrypt(file, KEY).ok
    /\ Loaded.credentials = EmptyObj

\* C10: for a platform that has no entry in the fallback table and no record
\* in the vault, getCredentials returns the empty mapping and does not throw.
C10_UnknownPlatformIsEmpty ==
    (/\ ret.op = "getCredentials"
     /\ ret.platform \notin Range(KnownPlatforms)
     /\ ret.platform \notin DOMAIN Loaded.credentials)
    => ~ret.threw /\ ret.map = EmptyObj

\* C10 witness: getCredentials("doesnotexist") returned {} from a vault that
\* holds the record of another platform
C10_Witness ==
    /\ ret.op = "getCredentials" /\ ret.platform = "doesnotexist"
    /\ ~ret.threw /\ ret.map = EmptyObj
    /\ DOMAIN Loaded.credentials = {"github"}

\* the fallback table of a platform where no environment variable is set:
\* its fields, each with the literal default of the source
TableDefaults(p) == envCreds(EmptyObj, p)

\* no variable of the render entry of the table is set to a value
RenderEnvUnset ==
    \A n \in {"RENDER_API_KEY", "RENDER_SERVICE_ID"} :
        n \notin DOMAIN env \/ env[n] = ""

\* C11 as claimed: the result of getCredentials holds only fields present in
\* a source: a field that neither the vault nor the environment gives a value
\* is absent from the result and not present with an empty string; with no
\* render variable set and {apiKey: v} stored, getCredentials("render")
\* returns exactly {apiKey: v}.
C11_OnlySourcedFields ==
    ret.op = "getCredentials" /\ ~ret.threw
    => /\ \A k \in DOMAIN ret.map : k \in DOMAIN StoredNow \/ ret.map[k] # ""
       /\ (ret.platform = "render" /\ RenderEnvUnset
              /\ DOMAIN StoredNow = {"apiKey"})
          => ret.map = StoredNow

\* C11 as amended: the result of getCredentials holds every field of the
\* platform's fallback table and every stored field, and no other field; a
\* field of the table that neither the vault nor the environment gives a
\* value is present with the table's default, the empty string for render:
\* with {apiKey: v} stored, getCredentials("render") returns
\* {apiKey: v, serviceId: ""}.
C11_TableFieldsAlwaysPresent ==
    ret.op = "getCredentials" /\ ~ret.threw
    => /\ DOMAIN ret.map = DOMAIN TableDefaults(ret.platform) \cup DOMAIN StoredNow
       /\ (ret.platform = "render" /\ RenderEnvUnset)
          => \A k \in {"apiKey", "serviceId"} \ DOMAIN StoredNow :
                ret.map[k] = ""
       /\ (ret.platform = "render" /\ RenderEnvUnset
              /\ DOMAIN StoredNow = {"apiKey"})
          => ret.map = [apiKey |-> StoredNow["apiKey"], serviceId |-> ""]

\* C11 witness: from no file and no variable set, {apiKey: rnd_abc123} was
\* stored and getCredentials("render") returned it beside the empty serviceId
C11_Witness ==
    /\ ret.op = "getCredentials" /\ ret.platform = "render" /\ ~ret.threw
    /\ env = EmptyObj
    /\ Loaded.credentials = Obj1("render", [apiKey |-> "rnd_abc123"])
    /\ ret.map = [apiKey |-> "rnd_abc123", serviceId |-> ""]

\* C12: hasCredentials(platform) returns true exactly when the mapping that
\* getCredentials(platform) returns in the same state has at least one field
\* whose value is a non-empty string.
C12_HasIffSomeNonEmptyField ==
    ret.op = "hasCredentials"
    => \A g \in {getCredentialsResult(file, KEY, env, now, ret.platform)} :
          /\ ~ret.threw /\ ~g.threw
          /\ ret.bool = (\E k \in DOMAIN g.map : g.map[k] # "")

\* C12 witness: hasCredentials("render") returned false where the mapping of
\* getCredentials("render") has the two fields of the table, both empty
C12_Witness ==
    /\ ret.op = "hasCredentials" /\ ret.platform = "render" /\ ~ret.bool
    /\ getCredentialsResult(file, KEY, env, now, "render").map
         = [apiKey |-> "", serviceId |-> ""]

\* the vault a holder of the key the file was written under reads from it
WrittenVault == loadVault(file, file.tag.mac.key, now)

\* C14: envelope invariant: the backing file, when it exists, is one envelope
\* {iv, tag, data} that one encrypt call made from the whole serialized
\* vault: encrypting the serialization of the vault read from it, under the
\* same key and iv, gives the file again; its data is not the serialized
\* vault in plain text, nor any JSON text.
C14_FileIsOneEnvelope ==
    /\ file.kind \in {"missing", "envelope"}
    /\ file.kind = "envelope"
       => /\ file.iv.len = IvBytes /\ file.tag.len = TagBytes
          /\ WrittenVault.type = "vault"
          /\ file = encrypt(JSONstringify(WrittenVault), file.tag.mac.key,
                            file.iv)
          /\ fromHex(file.data) # Utf8Encode(JSONstringify(WrittenVault))
          /\ ~JSONparse(Utf8Decode(fromHex(file.data))).ok

\* C14 witness: after a storeCredentials the one envelope in the file holds
\* the records of three platforms
C14_Witness ==
    /\ ret.op = "storeCredentials" /\ ~ret.threw
    /\ file.kind = "envelope"
    /\ DOMAIN WrittenVault.credentials = {"github", "render", "doesnotexist"}

\* no slack variable of the environment is set to a value
SlackEnvEmpty(e) ==
    \A n \in {"SLACK_WEBHOOK_URL", "SLACK_BOT_TOKEN"} :
        n \notin DOMAIN e \/ e[n] = ""

\* C13: hasCredentials("slack") is false while the slack variables are unset
\* or empty and the vault holds no non-empty slack field, and it is true in
\* the state right after any storeCredentials("slack", f) where f has a
\* non-empty value.
C13_SlackFalseThenTrueAfterStore ==
    [][/\ (ret'.op = "hasCredentials" /\ ret'.platform = "slack"
             /\ SlackEnvEmpty(env')
             /\ \A st \in {stored(LoadedNext, "slack")} :
                    \A k \in DOMAIN st : st[k] = "")
          => ~ret'.threw /\ ~ret'.bool
       /\ (ret'.op = "storeCredentials" /\ ret'.platform = "slack"
             /\ \E k \in DOMAIN ret'.creds : ret'.creds[k] # "")
          => \A h \in {hasCredentialsResult(file', KEY', env', now', "slack")} :
                ~ret'.threw /\ ~h.threw /\ h.bool]_vars

\* C13 witness: with no slack variable set, {webhookUrl: a} was stored for
\* slack and hasCredentials("slack") is true in the state after the call
C13_Witness ==
    /\ ret.op = "storeCredentials" /\ ret.platform = "slack" /\ ~ret.threw
    /\ ret.creds = [webhookUrl |-> "a"]
    /\ SlackEnvEmpty(env)
    /\ hasCredentialsResult(file, KEY, env, now, "slack").bool

\* C15 as claimed: listStoredPlatforms returns exactly the platforms that
\* have a non-empty stored record; a platform whose stored record has no
\* fields is not listed.
C15_ListsNonEmptyRecordsOnly ==
    ret.op = "listStoredPlatforms"
    => /\ ~ret.threw
       /\ ret.list = {p \in DOMAIN Loaded.credentials :
                         DOMAIN Loaded.credentials[p] # {}}

\* C15 failing input: after storeCredentials("render", {}) on a vault with no
\* render record, listStoredPlatforms lists render, whose record is {}
C15_EmptyRecordListed ==
    /\ ret.op = "listStoredPlatforms" /\ ~ret.threw
    /\ "render" \in ret.list
    /\ Loaded.credentials["render"] = EmptyObj

\* C19 as claimed: the environment fallback values are fixed at process
\* start: a change of an environment variable in the running process does
\* not change what getCredentials returns, and no storeCredentials or
\* deleteCredentials call changes the fallback value of any platform and
\* field.
C19_FallbackFixedAtStart ==
    [][/\ ret'.op = "setenv"
          => \A p \in EnvPlatforms :
                getCredentialsResult(file', KEY', env', now', p)
                  = getCredentialsResult(file, KEY, env, now, p)
       /\ ret'.op \in {"storeCredentials", "deleteCredentials"}
          => \A p \in EnvPlatforms : envCreds(env', p) = envCreds(env, p)]_vars

\* C19 failing input: SLACK_WEBHOOK_URL was set to hook_url in the running
\* process, and getCredentials("slack") then returned it
C19_ChangedVariableIsRead ==
    /\ ret.op = "getCredentials" /\ ret.platform = "slack" /\ ~ret.threw
    /\ "SLACK_WEBHOOK_URL" \in DOMAIN env
    /\ env["SLACK_WEBHOOK_URL"] = "hook_url"
    /\ ret.map["webhookUrl"] = "hook_url"

\* C16: a write failure is never reported as success: where writing the file
\* fails inside storeCredentials or deleteCredentials, the call throws to its
\* caller; deleteCredentials does not return true.
C16_WriteFailurePropagates ==
    [][disk # "ok"
          => /\ ret'.op = "storeCredentials" => ret'.threw
             /\ (ret'.op = "deleteCredentials"
                   /\ ret'.platform \in DOMAIN Loaded.credentials)
                => ret'.threw /\ ~ret'.bool
             /\ (ret'.op \in {"storeCredentials", "deleteCredentials"}
                   /\ ~ret'.threw)
                => file' = file]_vars

\* C16 witness: on a read-only disk deleteCredentials of a stored platform
\* threw, and the record is still in the file
C16_Witness ==
    /\ disk = "readonly"
    /\ ret.op = "deleteCredentials" /\ ret.threw /\ ~ret.bool
    /\ ret.platform \in DOMAIN Loaded.credentials

\* C17 as claimed: crash-safe persistence: after a crash at any point inside
\* storeCredentials or deleteCredentials the file decrypts to the complete
\* vault from before the call or to the complete vault from after it, and
\* the credentials stored before for other platforms can be loaded.
C17_CrashLeavesOldOrNewVault ==
    [][/\ ret'.op = "crash in storeCredentials"
          => /\ decrypt(file', KEY').ok
             /\ LoadedNext.credentials
                  \in { Loaded.credentials,
                        storeInVault(Loaded, ret'.platform,
                                     ret'.creds).credentials }
       /\ ret'.op = "crash in deleteCredentials"
          => /\ decrypt(file', KEY').ok
             /\ LoadedNext.credentials
                  \in { Loaded.credentials,
                        deleteFromVault(Loaded, ret'.platform).credentials }]_vars

\* C17 failing input: the vault held the github record, the process died
\* inside storeCredentials("render", ..), and the file left behind has no
\* complete text: the vault loaded from it has no github record
C17_CrashLosesOtherPlatforms ==
    /\ ret.op = "crash in storeCredentials" /\ ret.platform = "render"
    /\ "github" \in ret.list
    /\ file.kind = "notjson"
    /\ "github" \notin DOMAIN Loaded.credentials

\* C18 as claimed: lost update between two writers without locking: where
\* both writers of storeCredentials for two different platforms loaded the
\* vault before either saved, both calls return normally and, when the later
\* writer has written, the file holds the later writer's change and not the
\* earlier writer's.
C18_LostUpdate ==
    [][\A w \in Writers : \A v \in Writers \ {w} :
          (/\ pending[w].phase = "writing" /\ pending'[w].phase = "returned"
           /\ pending[w].op = "storeCredentials"
           /\ pending[v].phase = "returned"
           /\ pending[v].op = "storeCredentials"
           /\ pending[v].platform # pending[w].platform
           /\ pending[v].platform \notin DOMAIN pending[w].vault.credentials
           /\ pending[w].platform \notin DOMAIN pending[v].vault.credentials)
          => /\ ~ret'.threw
             /\ pending[v].platform \notin DOMAIN LoadedNext.credentials
             /\ pending[w].platform \in DOMAIN LoadedNext.credentials
             /\ LoadedNext.credentials[pending[w].platform]
                  = pending[w].creds]_vars

\* C18 failing input: both writers loaded the empty vault and both opened the
\* file; the writer of render wrote and returned, then the writer of github
\* wrote its shorter text over the start of it and returned: the file is no
\* JSON and holds neither record
C18_BothChangesLost ==
    /\ \A w \in Writers :
          /\ pending[w].phase = "returned"
          /\ pending[w].op = "storeCredentials"
          /\ pending[w].vault.credentials = EmptyObj
    /\ ret.op = "storeCredentials" /\ ret.platform = "github" /\ ~ret.threw
    /\ file.kind = "notjson"
    /\ Loaded.credentials = EmptyObj

\* C18 other case reached: the writes did not overlap and the later writer's
\* record is in the file alone
C18_LaterWriterWins ==
    /\ \A w \in Writers :
          /\ pending[w].phase = "returned"
          /\ pending[w].op = "storeCredentials"
          /\ pending[w].vault.credentials = EmptyObj
    /\ ret.op = "storeCredentials" /\ ret.platform = "render" /\ ~ret.threw
    /\ Loaded.credentials = Obj1("render", [apiKey |-> "rnd_abc123"])

\* the file is JSON without well-formed iv, tag and data fields of the
\* expected lengths
Malformed(f) ==
    \/ f.kind = "json"
    \/ f.kind = "envelope" /\ (f.iv.len # IvBytes \/ f.tag.len # TagBytes)

\* C20 as claimed: structural errors are told from authentication errors:
\* decrypt of a file whose JSON lacks well-formed iv, tag and data fields of
\* the expected lengths (16 bytes for iv and tag) fails before any decryption
\* is attempted, with an error that is not the one raised for a wrong key or
\* a tampered ciphertext.
C20_MalformedFailsBeforeDecryption ==
    \A d \in {decrypt(file, KEY)} :
       /\ Malformed(file)
          => ~d.ok /\ ~d.attempted /\ d.error # AuthError
       /\ (file.kind = "envelope" /\ ~Malformed(file) /\ WrongKeyOrModified)
          => ~d.ok /\ d.error = AuthError

\* C20 failing input: the iv of an envelope written under the process's key
\* is cut to 12 bytes: decrypt runs the decipher on the data and fails with
\* the authentication error
C20_ShortIvFailsAsAuthError ==
    /\ file.kind = "envelope" /\ file.iv.len = 12
    /\ file.tag.len = TagBytes /\ file.tag.mac.key = KEY
    /\ ~decrypt(file, KEY).ok
    /\ decrypt(file, KEY).attempted
    /\ decrypt(file, KEY).error = AuthError

\* C21: after a load that fell back to the empty vault because the file in
\* place could not be decrypted (another passphrase, a damaged envelope), the
\* next storeCredentials(p, f) reports no error and overwrites the file with
\* a vault that holds the record p -> f alone: whatever was stored before is
\* gone from the file.
C21_StoreAfterFailedLoadDropsAll ==
    [][(ret'.op = "storeCredentials"
          /\ file.kind = "envelope" /\ ~decrypt(file, KEY).ok)
       => /\ ~ret'.threw
          /\ file' # file
          /\ Pristine(file') /\ file'.tag.mac.key = KEY
          /\ LoadedNext.credentials = Obj1(ret'.platform, ret'.creds)
          /\ heldPlatforms(file', now') = {ret'.platform}]_vars

\* C21 failing input: the file held the github record under another
\* passphrase than the process's; storeCredentials("__proto__", {token: a})
\* returned, and the file holds a vault under the process's key that has no
\* record at all
C21_ProtoStoreLeavesNoRecord ==
    /\ ret.op = "storeCredentials" /\ ret.platform = "__proto__"
    /\ ~ret.threw
    /\ ret.creds = [token |-> "a"]
    /\ ret.list = {"github"}
    /\ Pristine(file) /\ file.tag.mac.key = KEY
    /\ Loaded.credentials = EmptyObj
    /\ heldPlatforms(file, now) = {}

\* C22 as claimed: deleteCredentials persists the file on every call, also
\* where the platform had no entry: after the call the file exists and its
\* updatedAt is the time of the call.
C22_DeleteAlwaysPersists ==
    [][(ret'.op = "deleteCredentials" /\ ~ret'.threw)
       => /\ file'.kind = "envelope"
          /\ LoadedNext.updatedAt = toISOString(now)]_vars

\* C22 as amended: deleteCredentials persists the file only where
\* vault.credentials[platform] is truthy, that is where the platform has an
\* entry or its name is one that every object inherits from
\* Object.prototype: the entry, if any, is removed, the file is rewritten
\* with the time of the call and the call returns true.  On every other
\* platform it returns false and leaves the file as it was: a missing file
\* stays missing and the updatedAt in the file stays the time of the last
\* write.
C22_DeleteWritesOnlyWhereTruthy ==
    [][(ret'.op = "deleteCredentials" /\ ~ret'.threw)
       => IF ret'.platform \in DOMAIN Loaded.credentials
             \/ ret'.platform \in ObjectPrototypeNames
          THEN /\ ret'.bool
               /\ file'.kind = "envelope"
               /\ LoadedNext.updatedAt = toISOString(now)
               /\ LoadedNext.credentials
                    = Without(Loaded.credentials, ret'.platform)
          ELSE /\ ~ret'.bool
               /\ file' = file]_vars

\* C22 witness: the file was written at time 0; at time 1 deleteCredentials
\* of a platform without entry returned false and the file still carries
\* the time 0
C22_Witness ==
    /\ ret.op = "deleteCredentials" /\ ~ret.bool /\ ~ret.threw
    /\ now = 1
    /\ file.kind = "envelope"
    /\ Loaded.updatedAt = toISOString(0)
    /\ ret.platform \notin DOMAIN Loaded.credentials

\* C23: every encrypt call uses an iv drawn freshly and at random in that
\* call.  In every state where a call has loaded the vault and is about to
\* save it, the encryption can come out under each value that
\* randomBytes(16) returns, whatever the text to encrypt, the envelope in
\* place, the time and the saves made before; and the envelope of every
\* save carries a 16-byte iv, under which it decrypts to the vault that was
\* to be saved.  So nothing makes two saves of the same content under the
\* same key share an iv.
C23_IvDrawnAtRandomInEverySave ==
    /\ [](pending[1].phase = "loaded"
            => \A iv \in IVs :
                  ENABLED (openTruncates(1) /\ pending'[1].text.iv = iv))
    /\ [][(pending[1].phase = "loaded" /\ pending'[1].phase = "writing")
           => \A e \in {pending'[1].text} :
                 /\ e.kind = "envelope"
                 /\ e.iv.len = IvBytes
                 /\ e.iv.id \in 1..NumIvs
                 /\ decrypt(e, KEY).ok
                 /\ loadVault(e, KEY, now).credentials
                      = changedVault(1).credentials]_vars

\* C23 witness: the file holds the github record as saved at this time
\* under the first iv; storeCredentials has loaded it and is about to save
\* the same content under the same key, and its encryption can come out
\* under the second iv, as another envelope of the same vault
C23_Witness ==
    /\ pending[1].phase = "loaded" /\ pending[1].op = "storeCredentials"
    /\ file.kind = "envelope" /\ file.iv.id = 1
    /\ pending[1].vault = Loaded
    /\ DOMAIN Loaded.credentials = {"github"}
    /\ changedVault(1).credentials = Loaded.credentials
    /\ \E first \in {saveVault(Loaded, KEY, now, [id |-> 1, len |-> IvBytes])},
          second \in {saveVault(Loaded, KEY, now, [id |-> 2, len |-> IvBytes])} :
          /\ file = first
          /\ second.iv # first.iv /\ second.data # first.data
          /\ loadVault(second, KEY, now) = Loaded
          /\ ENABLED (openTruncates(1) /\ pending'[1].text = second)

\* C24: read operations have no effect on the store: getCredentials,
\* hasCredentials and listStoredPlatforms never create, modify or delete the
\* file, also where it is missing or cannot be decrypted; and
\* deleteCredentials of a platform leaves the records of all other platforms
\* as they were.
C24_ReadsLeaveFileAlone ==
    [][/\ ret'.op \in {"getCredentials", "hasCredentials",
                       "listStoredPlatforms"}
          => file' = file
       /\ (ret'.op = "deleteCredentials" /\ ~ret'.threw)
          => \A before \in {Loaded} : \A after \in {LoadedNext} :
                /\ DOMAIN after.credentials
                     = DOMAIN before.credentials \ {ret'.platform}
                /\ \A q \in DOMAIN after.credentials :
                      after.credentials[q] = before.credentials[q]]_vars

\* C24 witness: getCredentials returned on an envelope that does not decrypt
\* under the process's key, and the envelope is still in place
C24_Witness ==
    /\ ret.op = "getCredentials" /\ ~ret.threw
    /\ file.kind = "envelope"
    /\ ~decrypt(file, KEY).ok

\* the in-memory map from platform to credential set, and its two updates
AbsMap == Loaded.credentials
AbsMerge(m, p, c) ==
    [q \in DOMAIN m \cup {p} |->
        IF q # p THEN m[q]
        ELSE IF p \notin DOMAIN m THEN c
        ELSE [k \in DOMAIN m[p] \cup DOMAIN c |->
                 IF k \in DOMAIN c THEN c[k] ELSE m[p][k]]]
AbsRemove(m, p) == [q \in DOMAIN m \ {p} |-> m[q]]

\* C25: within one process the file-backed vault refines an in-memory map
\* from platform to credential set: from a missing file the decrypted
\* content is the empty map, every storeCredentials step is the merge and
\* every deleteCredentials step the removal on the map, and no other step
\* changes it; so the content after any sequence of calls is the map built
\* by the same updates in the same order, and no update is lost.
C25_RefinesInMemoryMap ==
    /\ AbsMap = EmptyObj
    /\ [][\A m \in {AbsMap} : \A after \in {LoadedNext.credentials} :
             /\ ~ret'.threw
             /\ decrypt(file', KEY').ok \/ file'.kind = "missing"
             /\ after = CASE ret'.op = "storeCredentials" ->
                                AbsMerge(m, ret'.platform, ret'.creds)
                           [] ret'.op = "deleteCredentials" ->
                                AbsRemove(m, ret'.platform)
                           [] OTHER -> m]_vars

\* C25 failing input: from the missing file, storeCredentials("__proto__",
\* {token: a}) returned: the map built by the same update has the record
\* __proto__ -> {token: a}, the decrypted content of the file has none
C25_ProtoUpdateLost ==
    /\ ret.op = "storeCredentials" /\ ret.platform = "__proto__"
    /\ ~ret.threw
    /\ ret.list = {}
    /\ AbsMap = EmptyObj
    /\ AbsMerge(EmptyObj, ret.platform, ret.creds)
         = Obj1("__proto__", [token |-> "a"])
    /\ AbsMerge(EmptyObj, ret.platform, ret.creds) # AbsMap

\* environments that differ from e in a variable of another platform than p
OtherEnvs(e, p) ==
    { Spread(e, Obj1(n, v)) :
        n \in {"GITHUB_TOKEN", "GITHUB_DEFAULT_BRANCH", "RENDER_API_KEY",
               "SLACK_WEBHOOK_URL", "DISCORD_WEBHOOK_URL"} \ EnvNames(p),
        v \in {"", "other"} }

\* vaults that differ from vault in the record of another platform than p
OtherVaults(vault, p) ==
    UNION { { deleteFromVault(vault, q),
              storeInVault(deleteFromVault(vault, q), q, Obj1("token", "b")) } :
            q \in StorePlatforms \ {p} }

\* C26: isolation between platforms: the results of getCredentials(p) and
\* hasCredentials(p) depend only on the stored record of p and on the
\* environment variables declared for p: in a state that differs in the
\* stored record or in an environment variable of another platform the
\* same call returns the same result.
C26_PlatformsIsolated ==
    ret.op \in {"getCredentials", "hasCredentials"}
    => \A p \in {ret.platform} :
          /\ \A e2 \in OtherEnvs(env, p) :
                /\ ret.op = "getCredentials"
                   => getCredentialsResult(file, KEY, e2, now, p) = ret
                /\ ret.op = "hasCredentials"
                   => hasCredentialsResult(file, KEY, e2, now, p) = ret
          /\ \A v2 \in OtherVaults(Loaded, p) :
             \A f2 \in {saveVault(v2, KEY, now, [id |-> 1, len |-> IvBytes])} :
             \A e2 \in {Spread(env, Obj1("SLACK_BOT_TOKEN", "other"))} :
                /\ ret.op = "getCredentials"
                   => getCredentialsResult(f2, KEY, e2, now, p) = ret
                /\ ret.op = "hasCredentials"
                   => hasCredentialsResult(f2, KEY, e2, now, p) = ret

\* C26 witness: getCredentials("render") returned the stored key beside the
\* github record in the vault and GITHUB_TOKEN in the environment
C26_Witness ==
    /\ ret.op = "getCredentials" /\ ret.platform = "render" /\ ~ret.threw
    /\ ret.map["apiKey"] = "rnd_abc123"
    /\ "github" \in DOMAIN Loaded.credentials
    /\ "GITHUB_TOKEN" \in DOMAIN env

\* C27 as claimed: for every platform of the registry, where none of its
\* environment variables is set and the vault holds no record for it,
\* hasCredentials(platform) is false.
C27_UnconfiguredPlatformHasNone ==
    (/\ ret.op = "hasCredentials"
     /\ ret.platform \in Range(KnownPlatforms)
     /\ \A n \in EnvNames(ret.platform) : n \notin DOMAIN env
     /\ ret.platform \notin DOMAIN Loaded.credentials)
    => ~ret.threw /\ ~ret.bool

\* C27 failing input: with an empty environment and no file,
\* hasCredentials("aws") returned true: the region of the table defaults to
\* us-east-1
C27_AwsDefaultCountsAsCredential ==
    /\ ret.op = "hasCredentials" /\ ret.platform = "aws" /\ ret.bool
    /\ env = EmptyObj
    /\ file.kind = "missing"
    /\ getCredentialsResult(file, KEY, env, now, "aws").map
         = [accessKeyId |-> "", secretAccessKey |-> "",
            region |-> "us-east-1", appId |-> ""]

\* the passphrase an environment configures; none where the variable is
\* unset or empty
Passphrase(e) ==
    IF "MCP_VAULT_KEY" \in DOMAIN e /\ e["MCP_VAULT_KEY"] # ""
    THEN <<e["MCP_VAULT_KEY"]>> ELSE <<>>

\* C28: the key is a deterministic function of the configured passphrase,
\* fixed once at process start: a process started with a passphrase has the
\* hash of that passphrase as its key, one started with the passphrase unset
\* or empty has the key of the built-in default, no later step changes the
\* key, and a process started with the passphrase a file was written under
\* loads the vault in that file.
C28_KeyFromPassphraseAtStart ==
    [][/\ ret'.op = "start"
          => /\ Passphrase(env') # <<>>
                => KEY' = [sha256 |-> env'["MCP_VAULT_KEY"]]
             /\ Passphrase(env') = <<>>
                => KEY' = [sha256 |-> "devops-agent-default-vault-key-32c"]
             /\ (file.kind = "envelope"
                   /\ file.tag.mac.key.sha256
                        \in Range(Passphrase(env')
                                  \o <<"devops-agent-default-vault-key-32c">>)
                   /\ (Passphrase(env') # <<>>
                         => file.tag.mac.key.sha256 = Passphrase(env')[1]))
                => \A v \in {LoadedNext} :
                      /\ decrypt(file', KEY').ok
                      /\ v.credentials
                           = loadVault(file, file.tag.mac.key, now).credentials
       /\ ret'.op # "start" => KEY' = KEY]_vars

\* C28 witness: a process started with MCP_VAULT_KEY set to the empty string
\* has the key of the default passphrase and reads the stored records from
\* the file in place
C28_Witness ==
    /\ ret.op = "start"
    /\ "MCP_VAULT_KEY" \in DOMAIN env /\ env["MCP_VAULT_KEY"] = ""
    /\ KEY = Sha256(DefaultVaultKey)
    /\ decrypt(file, KEY).ok
    /\ DOMAIN Loaded.credentials # {}

\* the persisted list of deployments
Persisted == IF db.kind = "json" THEN db.deployments ELSE <<>>
PersistedNext == IF db'.kind = "json" THEN db'.deployments ELSE <<>>

\* C29: the deployment history is bounded and newest-first: after every
\* insertDeployment the persisted list has at most 500 entries, the record
\* just inserted is at index 0 followed by the earlier records in their
\* order, the records no longer in the list are exactly the oldest ones, and
\* the list is always in descending order of insertion; updateDeployment
\* with an id that is not in the list changes nothing.
C29_HistoryBoundedNewestFirst ==
    [][\A old \in {Persisted} : \A new \in {PersistedNext} :
         /\ Len(new) <= 500
         /\ \A i \in 1..(Len(new) - 1) :
               new[i].createdAt > new[i + 1].createdAt
         /\ ret'.op = "insertDeployment"
            => /\ Len(new) >= 1 /\ new[1] = ret'.record
               /\ Len(new) = (IF Len(old) >= 500 THEN 500 ELSE Len(old) + 1)
               /\ \A i \in 2..Len(new) : new[i] = old[i - 1]
               /\ \A j \in Len(new)..Len(old) : \A i \in 1..Len(new) :
                     old[j].createdAt < new[i].createdAt
         /\ (ret'.op = "updateDeployment"
              /\ \A i \in 1..Len(old) : old[i].id # ret'.id)
            => db' = db
         /\ ret'.op \in {"insertAuditLog", "insertScheduledJob",
                          "deleteScheduledJob"}
            => new = old]_vars

\* C29 witness: an insertDeployment into a full history has just dropped the
\* oldest record (id 1) and put the new record first, leaving 500 records
C29_Witness ==
    /\ ret.op = "insertDeployment"
    /\ Len(Persisted) = 500
    /\ Persisted[1] = ret.record
    /\ Persisted[2].id = <<"5", "0", "0">>
    /\ Persisted[500].id = <<"2">>
    /\ \A i \in 1..500 : Persisted[i].id # <<"1">>

\* C29 second case reached: updateDeployment with an id no record has
C29_UnknownIdReached ==
    /\ ret.op = "updateDeployment"
    /\ Len(Persisted) = 500
    /\ \A i \in 1..500 : Persisted[i].id # ret.id

\* the deployments after the first record with the given id has been marked
\* with the outcome of a completed check
Marked(list, id, success, durationMs, url, t) ==
    [i \in DOMAIN list |->
        IF list[i].id = id /\ \A j \in 1..(i - 1) : list[j].id # id
        THEN [id |-> list[i].id,
              status |-> IF success THEN "success" ELSE "failed",
              createdAt |-> list[i].createdAt,
              updatedAt |-> toISOString(t),
              durationMs |-> <<durationMs>>,
              url |-> url]
        ELSE list[i]]

\* C30: watchDeployment always terminates provided each status check
\* returns.  A check that reports completed ends the call at once with that
\* check's status, after the record of the deployment has been marked
\* 'success' or 'failed'; a check that does not is followed by a sleep of at
\* least pollInterval; the loop polls only while the elapsed time is below
\* timeoutMs and returns 'timeout' at the first test at which it is not,
\* leaving the record alone; the record changes in no other step; and for a
\* platform other than github and render no check reports completed and the
\* call returns 'timeout'.
C30_WatchTerminates ==
    /\ [][/\ (watch.pc = "check" /\ watch'.pc # "check" /\ ~ret'.threw)
             => IF watch'.last.completed
                THEN /\ watch'.pc = "idle"
                     /\ ret'.op = "watchDeployment"
                     /\ ret'.status = watch'.last.status
                     /\ ret'.status # <<"timeout">>
                     /\ ret'.durationMs >= watch.elapsed
                     /\ PersistedNext
                          = Marked(Persisted, watch.deploymentId,
                                   watch'.last.success, ret'.durationMs,
                                   watch'.last.url, now')
                     /\ \A i \in DOMAIN PersistedNext :
                           PersistedNext[i].id = watch.deploymentId
                           => PersistedNext[i].status \in {"success", "failed"}
                ELSE /\ watch'.pc = "sleep"
                     /\ ret'.op # "watchDeployment"
                     /\ db' = db
          /\ watch'.pc = "check" => watch'.elapsed < watch'.timeoutMs
          /\ watch.pc = "sleep"
             => /\ watch'.elapsed >= watch.elapsed + 10000
                /\ watch'.pc \in {"check", "idle"}
          /\ (watch.pc \in {"idle", "sleep"} /\ watch'.pc = "idle")
             => /\ ret'.op = "watchDeployment" /\ ~ret'.threw
                /\ ret'.status = <<"timeout">>
                /\ ret'.durationMs = watch'.elapsed
                /\ watch'.elapsed >= watch'.timeoutMs
                /\ db' = db
          /\ db' # db
             => /\ watch.pc = "check" /\ watch'.last.completed
                /\ ret'.op = "watchDeployment" /\ ret'.status # <<"timeout">>
          /\ watch'.platform \notin {"github", "render"}
             => /\ ~watch'.last.completed
                /\ ret'.op = "watchDeployment"
                   => ~ret'.threw /\ ret'.status = <<"timeout">>
                      /\ ret'.durationMs >= watch'.timeoutMs]_vars
    /\ (watch.pc # "idle" ~> watch.pc = "idle")

\* C30 witness: a call on a platform other than github and render, with the
\* default timeout, has polled until 300000 ms had passed and returned
\* 'timeout', the record of the deployment being as it was
C30_Witness ==
    /\ ret.op = "watchDeployment" /\ ret.status = <<"timeout">>
    /\ watch.pc = "idle" /\ watch.platform = "vercel"
    /\ watch.deploymentId = <<"4", "2">>
    /\ watch.timeoutMs = 300000 /\ watch.elapsed >= 300000
    /\ watch.last.status = <<"in_progress">>
    /\ Persisted[1].status = "deploying"

\* C30 completed case reached: a GitHub run reported completed with
\* conclusion success and the record of deployment 42 is marked success
C30_CompletedReached ==
    /\ ret.op = "watchDeployment" /\ ret.status = <<"completed">>
    /\ ret.conclusion = <<"success">>
    /\ watch.pc = "idle" /\ watch.platform = "github"
    /\ watch.elapsed > 10000
    /\ Persisted[1].status = "success"
    /\ Persisted[1].durationMs = <<ret.durationMs>>

====
